---- MODULE Spec2Model ----
(***************************************************************************)
(* Mana economy of the card backend: the per-card mana ledger              *)
(* (utils/manaManager.ts), the chat routes that read and mutate it, the    *)
(* login / registration token grants (routes/auth.ts) and the checkout     *)
(* confirmation (routes/stripe.ts), in flat-file (JSON) storage mode.      *)
(* Every route handler of the mana economy is one atomic action.           *)
(* The second half models the cipher (utils/encryption.ts), the identity   *)
(* codec (utils/userHelpers.ts, utils/userEmailHelper.ts), the session     *)
(* credential (utils/jwt.ts), the flat-file repository                     *)
(* (data/databaseAdapter.ts) and the password reset routes.                *)
(***************************************************************************)
EXTENDS Integers, Sequences, FiniteSets, TLC

VARIABLES
    today,        \* the calendar day getTodayDate() returns, as a day number
    users,        \* db.users: user id -> UserProfile (the fields used here)
    cards,        \* db.cards: card id -> Card (attributes.mana, devotion, character)
    manaState,    \* data/manaState.json: card id -> {lastRechargeDate, currentMana}
    savedChats,   \* saved chats: <<userId, cardId>> -> encryptedMessages
    confirmed,    \* history: checkout sessions /confirm has already applied
    ENCRYPTION_KEY,       \* utils/encryption.ts: the key cached at module load
    envKey,               \* process.env.ENCRYPTION_KEY
    clock,                \* Date.now(), in hours
    sets,                 \* db.sets: set id -> CardSet
    passwordResetTokens,  \* db.passwordResetTokens: token id -> record
    requests,             \* /reset-password requests in flight: id -> locals
    JWT_SECRET_FINAL,     \* utils/jwt.ts: the signing secret read at module load
    cookie,               \* the authToken cookie the client holds
    resetLog,             \* history: reset tokens issued, passwords written
    friendRequests,       \* db.friendRequests: request id -> FriendRequest
    response              \* the value the last call or request returned

\* the variables of the cipher, identity, session, repository and reset parts
auxVars == <<ENCRYPTION_KEY, envKey, JWT_SECRET_FINAL, clock, sets,
             passwordResetTokens, requests, cookie, resetLog, friendRequests,
             response>>

vars == <<today, users, cards, manaState, savedChats, confirmed, auxVars>>

----------------------------------------------------------------------------
(* Bounds *)

MaxDay == 2          \* days 0..MaxDay
MaxCardMana == 6     \* /confirm stops raising attributes.mana here
MaxDevotion == 2     \* chat save stops raising devotion here
MaxIncreaseTokens == 1

----------------------------------------------------------------------------
(* JavaScript helpers *)

\* an optional number field that is undefined
Unset == -1

\* `x || d` on an optional number: undefined and 0 are both falsy
OrDefault(x, d) == IF x = Unset \/ x = 0 THEN d ELSE x

Max(a, b) == IF a >= b THEN a ELSE b
Min(a, b) == IF a <= b THEN a ELSE b

EmptyMap == [x \in {} |-> 0]

\* map[k] = v on a JS object / Map
Put(f, k, v) == [x \in (DOMAIN f) \cup {k} |-> IF x = k THEN v ELSE f[x]]

----------------------------------------------------------------------------
(* Catalog and identities *)

UserIds == {"u1", "u2"}
CardIds == {"c1", "c2"}
SetIds == {"s1"}

\* a card id no catalog entry exists for
MissingCard == "cX"

\* the sets in the store: s1 is a set of character A holding card c1
SetCatalog == [s \in SetIds |-> [character |-> "A", cardIds |-> {"c1"}]]

\* the cards in the store: c1 has no attributes.mana (base defaults to 5) and
\* character A; c2 has attributes.mana 2 and no character
InitCards ==
    [c \in CardIds |->
        IF c = "c1" THEN [mana |-> Unset, devotion |-> Unset, character |-> "A"]
                    ELSE [mana |-> 2, devotion |-> 1, character |-> ""]]

\* a user record written before the token fields existed
LegacyUser ==
    [manaReloadTokens |-> Unset, manaIncreaseTokens |-> Unset,
     lastLoginDate |-> Unset, collectionCardIds |-> {}, collectionSetIds |-> {}]

----------------------------------------------------------------------------
(* Mana ledger: utils/manaManager.ts.  Each function maps the ledger file   *)
(* it reads to the file it leaves behind (ms) and its return value (ret).   *)

\* card.attributes.mana || 5, plus one per owned set of the card's character
BaseMana(card, user) ==
    LET base == OrDefault(card.mana, 5)
    IN  IF card.character # ""
        THEN base + Cardinality({s \in SetIds :
                        /\ SetCatalog[s].character = card.character
                        /\ s \in user.collectionSetIds})
        ELSE base

\* mutant: the date comparison is lost and every reading recharges
IsNewDay_Always(lastRechargeDate, day) == TRUE

\* lastRechargeDate !== today
IsNewDay(lastRechargeDate, day) == lastRechargeDate # day

RechargeManaIfNeeded(ms, cs, cardId, baseOverride, day) ==
    IF cardId \notin DOMAIN cs THEN [ms |-> ms, ret |-> 0]
    ELSE
    LET baseMana == IF baseOverride # Unset THEN baseOverride
                    ELSE OrDefault(cs[cardId].mana, 5)
        hasState == cardId \in DOMAIN ms
        lastRechargeDate == IF hasState THEN ms[cardId].lastRechargeDate ELSE day
    IN  IF IsNewDay(lastRechargeDate, day)
        THEN [ms |-> Put(ms, cardId, [lastRechargeDate |-> day, currentMana |-> baseMana]),
              ret |-> baseMana]
        ELSE [ms |-> ms,
              ret |-> IF hasState THEN ms[cardId].currentMana ELSE baseMana]

GetCurrentMana(ms, cs, cardId, baseOverride, day) ==
    RechargeManaIfNeeded(ms, cs, cardId, baseOverride, day)

\* mutant: the decrement without its floor
DepleteFloor_NoFloor(m) == m - 1

\* the floor at 0 of depleteMana: Math.max(0, currentMana - 1)
DepleteFloor(m) == Max(0, m - 1)

\* depleteMana reads the ledger file BEFORE it calls rechargeManaIfNeeded, and
\* computes and writes from that earlier copy
DepleteMana(ms, cs, cardId, day) ==
    IF cardId \notin DOMAIN cs THEN [ms |-> ms, ret |-> 0]
    ELSE
    LET baseMana == OrDefault(cs[cardId].mana, 5)
        stale == ms
        recharged == RechargeManaIfNeeded(ms, cs, cardId, Unset, day).ms
        currentMana == IF cardId \in DOMAIN stale THEN stale[cardId].currentMana
                       ELSE baseMana
        newMana == DepleteFloor(currentMana)
    IN  [ms |-> Put(stale, cardId, [lastRechargeDate |-> day, currentMana |-> newMana]),
         ret |-> newMana]

\* a JavaScript number that is a ratio of integers, den > 0
Number(num, den) == [num |-> num, den |-> den]
Whole(n) == Number(n, 1)

\* rounding to the nearest integer
MathFloor_Round(x) == (2 * x.num + x.den) \div (2 * x.den)

\* Math.floor
MathFloor(x) == x.num \div x.den

\* value is a Number; the routes pass whole numbers
SetCurrentMana(ms, cs, cardId, value, day) ==
    IF cardId \notin DOMAIN cs THEN [ms |-> ms, ret |-> 0]
    ELSE
    LET date == IF cardId \in DOMAIN ms THEN ms[cardId].lastRechargeDate ELSE day
        v == Max(0, MathFloor(value))
    IN  [ms |-> Put(ms, cardId, [lastRechargeDate |-> date, currentMana |-> v]),
         ret |-> v]

----------------------------------------------------------------------------
(* Chat routes on the ledger: routes/chats.ts *)

\* user && user.collectionCardIds.includes(cardId)
Owns(userId, cardId) ==
    /\ userId \in DOMAIN users
    /\ cardId \in users[userId].collectionCardIds

\* GET /card/:cardId/mana
GetManaStatus(userId, cardId) ==
    IF cardId \notin DOMAIN cards THEN 404
    ELSE IF ~Owns(userId, cardId) THEN 403
    ELSE 200

GetManaResult(userId, cardId) ==
    GetCurrentMana(manaState, cards, cardId,
                   BaseMana(cards[cardId], users[userId]), today)

GetManaRoute(userId, cardId) ==
    /\ manaState' = IF GetManaStatus(userId, cardId) = 200
                    THEN GetManaResult(userId, cardId).ms
                    ELSE manaState
    /\ UNCHANGED <<today, users, cards, savedChats, confirmed, auxVars>>

\* POST /card/:cardId/deplete
DepleteStatus(userId, cardId) ==
    IF cardId \notin DOMAIN cards THEN 404
    ELSE IF ~Owns(userId, cardId) THEN 403
    ELSE IF GetManaResult(userId, cardId).ret <= 0 THEN 400
    ELSE 200

DepleteResult(userId, cardId) ==
    DepleteMana(GetManaResult(userId, cardId).ms, cards, cardId, today)

DepleteRoute(userId, cardId) ==
    /\ manaState' = CASE DepleteStatus(userId, cardId) = 200 ->
                            DepleteResult(userId, cardId).ms
                      [] DepleteStatus(userId, cardId) = 400 ->
                            GetManaResult(userId, cardId).ms
                      [] OTHER -> manaState
    /\ UNCHANGED <<today, users, cards, savedChats, confirmed, auxVars>>

\* mutant: the token guard is lost
ReloadStatus_NoTokenGuard(userId, cardId) ==
    IF userId \notin DOMAIN users \/ cardId \notin DOMAIN cards THEN 404
    ELSE IF cardId \notin users[userId].collectionCardIds THEN 403
    ELSE 200

\* POST /card/:cardId/reload
ReloadStatus(userId, cardId) ==
    IF userId \notin DOMAIN users \/ cardId \notin DOMAIN cards THEN 404
    ELSE IF cardId \notin users[userId].collectionCardIds THEN 403
    ELSE IF users[userId].manaReloadTokens = Unset
            \/ users[userId].manaReloadTokens <= 0 THEN 400
    ELSE 200

ReloadRoute(userId, cardId) ==
    IF ReloadStatus(userId, cardId) = 200
    THEN LET user == users[userId]
             baseMana == BaseMana(cards[cardId], user)
             updatedTokens == Max(0, OrDefault(user.manaReloadTokens, 0) - 1)
         IN  /\ manaState' = SetCurrentMana(manaState, cards, cardId, Whole(baseMana), today).ms
             /\ users' = [users EXCEPT ![userId].manaReloadTokens = updatedTokens]
             /\ UNCHANGED <<today, cards, savedChats, confirmed, auxVars>>
    ELSE UNCHANGED vars

\* POST /card/:cardId/increase
IncreaseStatus(userId, cardId) ==
    IF userId \notin DOMAIN users \/ cardId \notin DOMAIN cards THEN 404
    ELSE IF cardId \notin users[userId].collectionCardIds THEN 403
    ELSE IF users[userId].manaIncreaseTokens = Unset
            \/ users[userId].manaIncreaseTokens <= 0 THEN 400
    ELSE 200

\* mutant: the increase without its cap at base
IncreaseTarget_NoCap(baseMana, current) == current + 1

\* Math.min(baseMana, current + 1)
IncreaseTarget(baseMana, current) == Min(baseMana, current + 1)

IncreaseRoute(userId, cardId) ==
    IF IncreaseStatus(userId, cardId) = 200
    THEN LET user == users[userId]
             baseMana == BaseMana(cards[cardId], user)
             got == GetCurrentMana(manaState, cards, cardId, baseMana, today)
             newCurrent == IncreaseTarget(baseMana, got.ret)
             updatedTokens == Max(0, OrDefault(user.manaIncreaseTokens, 0) - 1)
         IN  /\ manaState' = SetCurrentMana(got.ms, cards, cardId, Whole(newCurrent), today).ms
             /\ users' = [users EXCEPT ![userId].manaIncreaseTokens = updatedTokens]
             /\ UNCHANGED <<today, cards, savedChats, confirmed, auxVars>>
    ELSE UNCHANGED vars

----------------------------------------------------------------------------
(* Purchases: routes/purchase.ts *)

\* POST /purchase/card/:cardId
PurchaseCard(userId, cardId) ==
    /\ users' = IF cardId \in DOMAIN cards /\ userId \in DOMAIN users
                THEN [users EXCEPT ![userId].collectionCardIds = @ \cup {cardId}]
                ELSE users
    /\ UNCHANGED <<today, cards, manaState, savedChats, confirmed, auxVars>>

\* POST /purchase/set/:setId
PurchaseSet(userId, setId) ==
    /\ users' = IF setId \in SetIds /\ userId \in DOMAIN users
                THEN [users EXCEPT
                        ![userId].collectionSetIds = @ \cup {setId},
                        ![userId].collectionCardIds = @ \cup SetCatalog[setId].cardIds]
                ELSE users
    /\ UNCHANGED <<today, cards, manaState, savedChats, confirmed, auxVars>>

----------------------------------------------------------------------------
(* Registration and login: routes/auth.ts.  The request names the user its  *)
(* email resolves to; valid says whether the rest of the request passes the *)
(* handler's checks (well-formed fields, matching password).                *)

\* Math.min(10, Math.max(0, tokens)) after registration
RegisterCap(tokens) == Min(10, Max(0, tokens))

\* POST /register
Register(userId, valid) ==
    /\ users' = IF valid /\ userId \notin DOMAIN users
                THEN Put(users, userId,
                         [manaReloadTokens |-> RegisterCap(1),
                          manaIncreaseTokens |-> 0,
                          lastLoginDate |-> today,
                          collectionCardIds |-> {},
                          collectionSetIds |-> {}])
                ELSE users
    /\ UNCHANGED <<today, cards, manaState, savedChats, confirmed, auxVars>>

\* Math.min(5, (manaReloadTokens || 0) + 1)
DailyGrant(tokens) == Min(5, OrDefault(tokens, 0) + 1)

\* POST /login: the daily grant (the username re-encryption of the same
\* handler writes no field kept here)
Login(userId, valid) ==
    /\ users' = IF /\ valid
                   /\ userId \in DOMAIN users
                   /\ users[userId].lastLoginDate # today
                THEN [users EXCEPT
                        ![userId].manaReloadTokens = DailyGrant(@),
                        ![userId].lastLoginDate = today]
                ELSE users
    /\ UNCHANGED <<today, cards, manaState, savedChats, confirmed, auxVars>>

\* the host's calendar date moves on
NextDay ==
    /\ today < MaxDay
    /\ today' = today + 1
    /\ UNCHANGED <<users, cards, manaState, savedChats, confirmed, auxVars>>

----------------------------------------------------------------------------
(* Checkout confirmation: routes/stripe.ts.  A checkout session is the      *)
(* payment provider's record: payment status and the metadata the checkout  *)
(* routes wrote (type, userId, quantity, cardId, setId).                    *)

Session(id, status, type, userId, quantity, cardId, setId) ==
    [id |-> id, payment_status |-> status, type |-> type, userId |-> userId,
     quantity |-> quantity, cardId |-> cardId, setId |-> setId]

\* parseInt of metadata.quantity, clamped to 1..20; 1 when missing or <= 0
SessionQuantity(session) ==
    LET q == IF session.quantity = Unset THEN 1 ELSE session.quantity
    IN  IF q <= 0 THEN 1 ELSE Min(20, Max(1, q))

\* mutant: the purchase without its cap
ReloadCap_None(tokens) == tokens

\* Math.min(10, current + quantity)
ReloadCap(tokens) == Min(10, tokens)

ConfirmStatus(userId, session) ==
    IF session.payment_status # "paid" THEN 400
    ELSE IF session.type = "" \/ session.userId # userId THEN 400
    ELSE IF userId \notin DOMAIN users THEN 404
    ELSE 200

\* typeof card.attributes?.mana === 'number' ? card.attributes.mana : 5
PrevBase(card) == IF card.mana = Unset THEN 5 ELSE card.mana

\* POST /confirm
Confirm(userId, session) ==
    IF ConfirmStatus(userId, session) # 200 THEN UNCHANGED vars
    ELSE
    LET user == users[userId]
        quantity == SessionQuantity(session)
        type == session.type
        cardId == session.cardId
        setId == session.setId
    IN  /\ confirmed' = confirmed \cup {session.id}
        /\ UNCHANGED <<today, savedChats, auxVars>>
        /\ CASE type = "card" /\ cardId # "" ->
                  /\ users' = [users EXCEPT ![userId].collectionCardIds = @ \cup {cardId}]
                  /\ UNCHANGED <<cards, manaState>>
             [] type = "set" /\ setId # "" ->
                  /\ users' = [users EXCEPT
                        ![userId].collectionSetIds = @ \cup {setId},
                        ![userId].collectionCardIds =
                            IF setId \in SetIds THEN @ \cup SetCatalog[setId].cardIds ELSE @]
                  /\ UNCHANGED <<cards, manaState>>
             [] type = "mana_increase" ->
                  /\ OrDefault(user.manaIncreaseTokens, 0) + quantity <= MaxIncreaseTokens
                  /\ users' = [users EXCEPT ![userId].manaIncreaseTokens =
                                    OrDefault(user.manaIncreaseTokens, 0) + quantity]
                  /\ UNCHANGED <<cards, manaState>>
             [] type = "mana_increase_card" /\ cardId # "" ->
                  IF cardId \in DOMAIN cards
                  THEN LET newBase == PrevBase(cards[cardId]) + quantity
                           got == GetCurrentMana(manaState, cards', cardId, newBase, today)
                           target == Min(newBase, got.ret + quantity)
                       IN  /\ newBase <= MaxCardMana
                           /\ cards' = [cards EXCEPT ![cardId].mana = newBase]
                           /\ manaState' = SetCurrentMana(got.ms, cards', cardId, Whole(target), today).ms
                           /\ UNCHANGED users
                  ELSE UNCHANGED <<users, cards, manaState>>
             [] type = "mana_reload" ->
                  /\ users' = [users EXCEPT ![userId].manaReloadTokens =
                                    ReloadCap(OrDefault(user.manaReloadTokens, 0) + quantity)]
                  /\ UNCHANGED <<cards, manaState>>
             [] OTHER -> UNCHANGED <<users, cards, manaState>>

----------------------------------------------------------------------------
(* Strings.  A JavaScript string is a sequence of UTF-16 code units; the     *)
(* units kept here are a few letters and signs, the blank, and the two       *)
(* halves of a surrogate pair (Hi, Lo), which are ill-formed when alone.     *)

Hi == "\\uD83D"
Lo == "\\uDE00"

\* U+FFFD, what the UTF-8 encoder writes for a lone surrogate
Replacement == "\\uFFFD"

\* the code point a well-formed Hi Lo pair encodes
Astral == "U+1F600"

\* String.prototype.includes for a single unit
Includes(s, unit) == \E i \in DOMAIN s : s[i] = unit

\* String.prototype.toLowerCase on the units kept here
LowerUnit(unit) == IF unit = "A" THEN "a" ELSE unit
ToLowerCase(s) == [i \in DOMAIN s |-> LowerUnit(s[i])]

\* String.prototype.trim
RECURSIVE TrimStart(_)
TrimStart(s) ==
    IF s # <<>> /\ Head(s) = " " THEN TrimStart(Tail(s)) ELSE s

RECURSIVE TrimEnd(_)
TrimEnd(s) ==
    IF s # <<>> /\ s[Len(s)] = " " THEN TrimEnd(SubSeq(s, 1, Len(s) - 1)) ELSE s

Trim(s) == TrimEnd(TrimStart(s))

\* the 'utf8' input encoding of cipher.update: the code points of the string,
\* a lone surrogate written as U+FFFD
RECURSIVE Utf8Encode(_)
Utf8Encode(s) ==
    IF s = <<>> THEN <<>>
    ELSE IF Len(s) >= 2 /\ s[1] = Hi /\ s[2] = Lo
         THEN <<Astral>> \o Utf8Encode(SubSeq(s, 3, Len(s)))
    ELSE IF s[1] \in {Hi, Lo}
         THEN <<Replacement>> \o Utf8Encode(Tail(s))
    ELSE <<s[1]>> \o Utf8Encode(Tail(s))

\* the 'utf8' output encoding of decipher.update / final
RECURSIVE Utf8Decode(_)
Utf8Decode(b) ==
    IF b = <<>> THEN <<>>
    ELSE IF b[1] = Astral THEN <<Hi, Lo>> \o Utf8Decode(Tail(b))
    ELSE <<b[1]>> \o Utf8Decode(Tail(b))

\* /^[^\s@]+@[^\s@]+\.[^\s@]+$/ : local part, one @, a domain with a dot
\* that has something on each side, no blank
EmailRegex(s) ==
    /\ ~Includes(s, " ")
    /\ \E i \in DOMAIN s :
        /\ s[i] = "@"
        /\ i > 1
        /\ \A j \in DOMAIN s : s[j] = "@" => j = i
        /\ \E d \in DOMAIN s : d > i + 1 /\ d < Len(s) /\ s[d] = "."

----------------------------------------------------------------------------
(* Cipher: utils/encryption.ts.  A stored string field is absent, a literal  *)
(* text, or the "ivHex:cipherHex" string encryptMessageWithIV builds, kept   *)
(* as the iv, the key and the bytes that were encrypted.  aes-256-cbc is     *)
(* taken to be a perfect cipher: two ciphertexts are the same string only    *)
(* for the same iv, key and bytes, and deciphering under another key fails   *)
(* the padding check in final().                                             *)

Keys == {"k1", "k2"}
IVs == {"iv1", "iv2"}

\* process.env.ENCRYPTION_KEY not set
NoKey == "none"

Absent == [kind |-> "absent"]
Text(s) == [kind |-> "text", chars |-> s]
Cipher(iv, key, bytes) == [kind |-> "cipher", iv |-> iv, key |-> key, bytes |-> bytes]

\* getEncryptionKey at module load: the environment variable if set, else the
\* key file (read, or generated and written when missing)
getEncryptionKey(env, keyFile) == IF env # NoKey THEN env ELSE keyFile

encryptMessageWithIV(text, iv) == Cipher(iv, ENCRYPTION_KEY, Utf8Encode(text))

Failed == [ok |-> FALSE]
Returned(v) == [ok |-> TRUE, value |-> v]

\* the secondary key of decryptMessage: the environment variable, when set
\* and different from the cached key
FallbackKey(key) == envKey # NoKey /\ envKey # ENCRYPTION_KEY /\ key = envKey

\* decryptMessage: Failed stands for the thrown Error.  A literal text never
\* has the shape "32 hex digits : hex" here, so it always throws.
decryptMessage(stored) ==
    IF stored.kind # "cipher" THEN Failed
    ELSE IF stored.key = ENCRYPTION_KEY THEN Returned(Utf8Decode(stored.bytes))
    ELSE IF FallbackKey(stored.key) THEN Returned(Utf8Decode(stored.bytes))
    ELSE Failed

\* string.includes(':') on a stored field
HasColon(stored) ==
    \/ stored.kind = "cipher"
    \/ stored.kind = "text" /\ Includes(stored.chars, ":")

\* the rest state of the parts the mana economy never touches
NoResponse == [kind |-> "none"]
NoCookie == [kind |-> "none"]

AuxAtRest ==
    /\ ENCRYPTION_KEY = "k1"
    /\ envKey = "k1"
    /\ clock = 0
    /\ sets = SetCatalog
    /\ passwordResetTokens = EmptyMap
    /\ requests = EmptyMap
    /\ JWT_SECRET_FINAL = "s1"
    /\ cookie = NoCookie
    /\ resetLog = {}
    /\ friendRequests = EmptyMap
    /\ response = NoResponse

----------------------------------------------------------------------------
(* Chat save: routes/chats.ts.  A saved chat is kept under its user and card *)
(* as the encryptedMessages string.                                          *)

\* A chat message is modelled by what the detector reads in its text: a
\* completion phrase, one of two distinct sensual keywords, or neither.
MsgKinds == {"plain", "completion", "keyword1", "keyword2"}

\* messages.slice(-8)
Recent(messages) ==
    IF Len(messages) <= 8 THEN messages
    ELSE SubSeq(messages, Len(messages) - 7, Len(messages))

hasCompleteSensualInteraction(messages) ==
    IF Len(messages) < 2 THEN FALSE
    ELSE LET recent == Recent(messages)
             kinds == {recent[i] : i \in 1..Len(recent)}
             hasCompletionPhrase == "completion" \in kinds
             keywordCount == Cardinality(kinds \cap {"keyword1", "keyword2"})
         IN  hasCompletionPhrase \/ keywordCount >= 2

\* messages.slice(previousMessages.length)
NewMessages(previous, messages) ==
    IF Len(previous) >= Len(messages) THEN <<>>
    ELSE SubSeq(messages, Len(previous) + 1, Len(messages))

\* JSON.stringify(messages): the text of the array, kept as its brackets,
\* its commas and one unit per message
JsonStringify(messages) ==
    IF messages = <<>> THEN <<"[", "]">>
    ELSE [i \in 1..(2 * Len(messages) + 1) |->
            IF i = 1 THEN "["
            ELSE IF i = 2 * Len(messages) + 1 THEN "]"
            ELSE IF i % 2 = 0 THEN messages[i \div 2]
            ELSE ","]

\* JSON.parse on the text of an array: Failed stands for the SyntaxError
JsonParse(text) ==
    IF text = <<"[", "]">> THEN Returned(<<>>)
    ELSE IF /\ Len(text) >= 3 /\ Len(text) % 2 = 1
            /\ text[1] = "[" /\ text[Len(text)] = "]"
            /\ \A i \in 2..(Len(text) - 1) :
                    IF i % 2 = 0 THEN text[i] \in MsgKinds ELSE text[i] = ","
         THEN Returned([k \in 1..((Len(text) - 1) \div 2) |-> text[2 * k]])
    ELSE Failed

\* the IV encryptMessage draws for a saved chat
ChatIVs == {"iv1"}

\* the devotion check of POST / (save chat): on the messages added since the
\* last save when the stored ones decrypt and parse, on all of them when
\* they do not, or when no chat is stored
shouldIncrementDevotion(userId, cardId, messages) ==
    IF <<userId, cardId>> \in DOMAIN savedChats
    THEN LET d == decryptMessage(savedChats[<<userId, cardId>>])
         IN  IF d.ok /\ JsonParse(d.value).ok
             THEN LET newMessages == NewMessages(JsonParse(d.value).value, messages)
                  IN  Len(newMessages) > 0 /\ hasCompleteSensualInteraction(newMessages)
             ELSE hasCompleteSensualInteraction(messages)
    ELSE hasCompleteSensualInteraction(messages)

\* POST / (save chat)
SaveChat(userId, cardId, messages) ==
    /\ IF shouldIncrementDevotion(userId, cardId, messages) /\ cardId \in DOMAIN cards
       THEN /\ OrDefault(cards[cardId].devotion, 1) < MaxDevotion
            /\ cards' = [cards EXCEPT ![cardId].devotion =
                                        OrDefault(cards[cardId].devotion, 1) + 1]
            /\ manaState' = DepleteMana(manaState, cards, cardId, today).ms
       ELSE UNCHANGED <<cards, manaState>>
    /\ \E iv \in ChatIVs :
            savedChats' = Put(savedChats, <<userId, cardId>>,
                              encryptMessageWithIV(JsonStringify(messages), iv))
    /\ UNCHANGED <<today, users, confirmed, auxVars>>

----------------------------------------------------------------------------
(* Identity codec: utils/userHelpers.ts and utils/userEmailHelper.ts *)

\* a stored field that is undefined or the empty string
Falsy(stored) == stored = Absent \/ stored = Text(<<>>)

\* `x || undefined`
OrUndefined(stored) == IF Falsy(stored) THEN Absent ELSE stored

\* 'email@missing.com'
MissingEmail == Text(<<"email", "@", "missing", ".", "com">>)

\* the email dropped when it cannot be decrypted
DecryptedEmail_DropOnFailure(user) ==
    IF Falsy(user.email) THEN MissingEmail
    ELSE LET d == decryptMessage(user.email)
         IN  IF d.ok THEN Text(d.value) ELSE Absent

\* decryptUserData, the email field
DecryptedEmail(user) ==
    IF Falsy(user.email) THEN MissingEmail
    ELSE IF HasColon(user.email)
         THEN LET d == decryptMessage(user.email)
              IN  IF d.ok /\ d.value # <<>> /\ Includes(d.value, "@")
                  THEN Text(d.value)
                  ELSE user.email
    ELSE user.email

\* decryptUserData, the username field
DecryptedUsername(user) ==
    IF Falsy(user.username) THEN Absent
    ELSE IF HasColon(user.username)
         THEN LET d == decryptMessage(user.username)
              IN  IF d.ok THEN OrUndefined(Text(d.value)) ELSE Absent
    ELSE user.username

\* decryptUserData, the bio, interests and location fields
DecryptedOptional(stored) ==
    IF Falsy(stored) THEN Absent
    ELSE LET d == decryptMessage(stored)
         IN  IF d.ok THEN OrUndefined(Text(d.value)) ELSE stored

\* decryptUserData: every field of the record but passwordHash, the five
\* encrypted fields replaced by what the codec made of them
decryptUserData(user) ==
    [f \in (DOMAIN user) \ {"passwordHash"} |->
        CASE f = "email" -> DecryptedEmail(user)
          [] f = "username" -> DecryptedUsername(user)
          [] f \in {"bio", "interests", "location"} -> DecryptedOptional(user[f])
          [] OTHER -> user[f]]

\* email.trim().toLowerCase()
NormalizeEmail(email) == ToLowerCase(Trim(email))

\* the catch branch of findUserByEmail: re-encrypt the candidate under the
\* record's own IV and compare the strings.  A literal text with a colon has
\* no 16-byte IV in front of it, so createCipheriv throws and the record is
\* skipped.
IVProbe(stored, normalizedEmail) ==
    /\ stored.kind = "cipher"
    /\ encryptMessageWithIV(normalizedEmail, stored.iv) = stored

\* the loop body of findUserByEmail
EmailMatches(user, normalizedEmail) ==
    LET d == decryptMessage(user.email)
    IN  IF d.ok THEN ToLowerCase(d.value) = normalizedEmail
        ELSE HasColon(user.email) /\ IVProbe(user.email, normalizedEmail)

\* db.users iterates in insertion order; records are inserted in this order
IdentityIds == <<"u1", "u2">>

NoUser == "null"

\* findUserByEmail (JSON mode): the first record that matches, else null
findUserByEmail(email) ==
    LET hits == {i \in DOMAIN IdentityIds :
                    /\ IdentityIds[i] \in DOMAIN users
                    /\ EmailMatches(users[IdentityIds[i]], NormalizeEmail(email))}
    IN  IF hits = {} THEN NoUser
        ELSE IdentityIds[CHOOSE i \in hits : \A j \in hits : i <= j]

----------------------------------------------------------------------------
(* Routes and calls on the identity fields.  A user record carries here the  *)
(* fields email, username, bio, interests, location and passwordHash.        *)

notIdentityVars == <<today, cards, manaState, savedChats, confirmed, clock, sets,
                     passwordResetTokens, requests, cookie, resetLog,
                     friendRequests>>

\* bcrypt.hash(password, 12)
Hash(password) == <<"bcrypt", password>>

\* the id uuid() hands to the next record: the first one not yet in db.users
FreeIds == {i \in DOMAIN IdentityIds : IdentityIds[i] \notin DOMAIN users}
NextId == IdentityIds[CHOOSE i \in FreeIds : \A j \in FreeIds : i <= j]

\* POST /register (routes/auth.ts): status of the response
RegisterStatus(email, passwordOk) ==
    IF Trim(email) = <<>> THEN 400
    ELSE IF ~EmailRegex(Trim(email)) THEN 400
    ELSE IF ~passwordOk THEN 400
    ELSE IF findUserByEmail(NormalizeEmail(email)) # NoUser THEN 409
    ELSE 201

\* POST /register, the identity fields of the record it creates
RegisterIdentity(email, username, passwordOk, iv) ==
    /\ FreeIds # {}
    /\ response' = [kind |-> "register", status |-> RegisterStatus(email, passwordOk)]
    /\ IF RegisterStatus(email, passwordOk) = 201
       THEN users' = Put(users, NextId,
                [email |-> encryptMessageWithIV(NormalizeEmail(email), iv),
                 username |-> IF Trim(username) # <<>>
                              THEN encryptMessageWithIV(Trim(username), iv)
                              ELSE Absent,
                 bio |-> Absent, interests |-> Absent, location |-> Absent,
                 passwordHash |-> Hash("Passw0rd")])
       ELSE UNCHANGED users
    /\ UNCHANGED <<ENCRYPTION_KEY, envKey, JWT_SECRET_FINAL>>
    /\ UNCHANGED notIdentityVars

\* PUT /profile/:userId (routes/profile.ts): a field of the body that is a
\* non-blank string is stored encrypted, any other given field is cleared
EncryptGiven(given, iv) ==
    IF given.kind = "text" /\ Trim(given.chars) # <<>>
    THEN encryptMessageWithIV(Trim(given.chars), iv)
    ELSE Absent

\* the email the handler compares the new one with
CurrentEmail(user) ==
    LET d == decryptMessage(user.email)
    IN  IF d.ok THEN ToLowerCase(d.value)
        ELSE IF user.email.kind = "text" THEN ToLowerCase(user.email.chars)
        ELSE <<>>

EmailChange(userId, body) ==
    /\ body.email.kind = "text"
    /\ Trim(body.email.chars) # <<>>

UpdateProfileStatus(userId, body) ==
    IF userId \notin DOMAIN users THEN 404
    ELSE IF ~EmailChange(userId, body) THEN 200
    ELSE IF ~EmailRegex(NormalizeEmail(body.email.chars)) THEN 400
    ELSE IF NormalizeEmail(body.email.chars) = CurrentEmail(users[userId]) THEN 200
    ELSE IF findUserByEmail(NormalizeEmail(body.email.chars)) \notin {NoUser, userId} THEN 409
    ELSE 200

\* PUT /profile/:userId: a body field that is undefined (Absent) leaves the
\* stored field alone
UpdateProfile(userId, body, iv) ==
    /\ response' = [kind |-> "profile", status |-> UpdateProfileStatus(userId, body)]
    /\ IF UpdateProfileStatus(userId, body) = 200
       THEN LET user == users[userId]
                newEmail ==
                    IF EmailChange(userId, body)
                       /\ NormalizeEmail(body.email.chars) # CurrentEmail(user)
                    THEN encryptMessageWithIV(NormalizeEmail(body.email.chars), iv)
                    ELSE user.email
            IN  users' = [users EXCEPT ![userId] =
                    [f \in DOMAIN user |->
                        IF f = "email" THEN newEmail
                        ELSE IF f \in DOMAIN body /\ body[f].kind = "text"
                             THEN EncryptGiven(body[f], iv)
                        ELSE user[f]]]
       ELSE UNCHANGED users
    /\ UNCHANGED <<ENCRYPTION_KEY, envKey, JWT_SECRET_FINAL>>
    /\ UNCHANGED notIdentityVars

\* the process is stopped and started again: the modules are loaded anew
\* with the environment and key file of the new deployment
Restart(env, keyFile, secret) ==
    /\ envKey' = env
    /\ ENCRYPTION_KEY' = getEncryptionKey(env, keyFile)
    /\ JWT_SECRET_FINAL' = secret
    /\ response' = NoResponse
    /\ UNCHANGED users
    /\ UNCHANGED notIdentityVars

\* a route hands a stored record to decryptUserData
DecryptUserDataCall(userId) ==
    /\ userId \in DOMAIN users
    /\ response' = [kind |-> "view", userId |-> userId,
                    view |-> decryptUserData(users[userId])]
    /\ UNCHANGED <<users, ENCRYPTION_KEY, envKey, JWT_SECRET_FINAL>>
    /\ UNCHANGED notIdentityVars

\* a route looks a user up by the email in the request
FindUserByEmailCall(email) ==
    /\ response' = [kind |-> "found", email |-> email, userId |-> findUserByEmail(email)]
    /\ UNCHANGED <<users, ENCRYPTION_KEY, envKey, JWT_SECRET_FINAL>>
    /\ UNCHANGED notIdentityVars

----------------------------------------------------------------------------
(* Session credential: utils/jwt.ts.  Time is counted in hours.  A signed    *)
(* token is the text jwt.sign returns, kept as its parts: the payload        *)
(* fields and the secret the signature was made with.                        *)

\* '24h'
JWT_EXPIRES_IN == 24

MaxClock == 25

Secrets == {"s1", "s2"}

\* a number as it is written into the token text, and read back
ParseInt(unit) ==
    IF \E n \in 0..(MaxClock + JWT_EXPIRES_IN) : ToString(n) = unit
    THEN CHOOSE n \in 0..(MaxClock + JWT_EXPIRES_IN) : ToString(n) = unit
    ELSE Unset

\* the stored email string as it is written into the payload
AsUnit(stored) == ToString(stored)

\* jwt.sign(payload, secret, {expiresIn}): iat is now, exp is iat + 24 h
Sign(userId, email, secret) ==
    <<"jwt", userId, AsUnit(email), ToString(clock), ToString(clock + JWT_EXPIRES_IN), secret>>

\* the expiry test of jwt.verify
Expired_Inclusive(exp) == clock > exp

Expired(exp) == clock >= exp

\* jwt.verify(token, secret): the decoded payload, or Failed for the thrown
\* JsonWebTokenError / TokenExpiredError
Verify(text, secret) ==
    IF Len(text) # 6 \/ text[1] # "jwt" THEN Failed
    ELSE IF text[6] # secret THEN Failed
    ELSE IF Expired(ParseInt(text[5])) THEN Failed
    ELSE Returned([userId |-> text[2], email |-> text[3],
                   iat |-> ParseInt(text[4]), exp |-> ParseInt(text[5])])

\* generateToken: sign, then encrypt the token text
generateToken(userId, email, iv) ==
    encryptMessageWithIV(Sign(userId, email, JWT_SECRET_FINAL), iv)

NullPayload == [kind |-> "null"]

\* verifyToken: decrypt, then verify; null on any throw
verifyToken(encryptedToken) ==
    LET d == decryptMessage(encryptedToken)
    IN  IF ~d.ok THEN NullPayload
        ELSE IF ~Verify(d.value, JWT_SECRET_FINAL).ok THEN NullPayload
        ELSE Verify(d.value, JWT_SECRET_FINAL).value

notSessionVars == <<today, users, cards, manaState, savedChats, confirmed, sets,
                    passwordResetTokens, requests, resetLog, friendRequests>>

\* /register, /login and /refresh hand the client a fresh credential, which
\* replaces the authToken cookie it held; issued keeps what the token was
\* made from
GenerateTokenCall(userId, email, iv) ==
    /\ cookie' = [kind |-> "authToken", token |-> generateToken(userId, email, iv),
                  userId |-> userId, email |-> email, issuedAt |-> clock,
                  key |-> ENCRYPTION_KEY, secret |-> JWT_SECRET_FINAL]
    /\ response' = NoResponse
    /\ UNCHANGED <<ENCRYPTION_KEY, envKey, JWT_SECRET_FINAL, clock>>
    /\ UNCHANGED notSessionVars

\* requireAuth and /verify hand the presented credential to verifyToken
VerifyTokenCall(token) ==
    /\ response' = [kind |-> "verify", token |-> token, payload |-> verifyToken(token)]
    /\ UNCHANGED <<ENCRYPTION_KEY, envKey, JWT_SECRET_FINAL, clock, cookie>>
    /\ UNCHANGED notSessionVars

\* an hour passes
Tick ==
    /\ clock < MaxClock
    /\ clock' = clock + 1
    /\ response' = NoResponse
    /\ UNCHANGED <<ENCRYPTION_KEY, envKey, JWT_SECRET_FINAL, cookie>>
    /\ UNCHANGED notSessionVars

----------------------------------------------------------------------------
(* Repository: data/databaseAdapter.ts in JSON mode.  A collection is the    *)
(* Map of db; each function maps it to the Map it leaves behind (store) and  *)
(* to what it returns or throws (result).                                    *)

Null == [kind |-> "null"]
Void == [kind |-> "void"]
Thrown(message) == [kind |-> "error", message |-> message]

\* { ...record, ...updates }
Merge(record, updates) ==
    [f \in (DOMAIN record) \cup (DOMAIN updates) |->
        IF f \in DOMAIN updates THEN updates[f] ELSE record[f]]

\* db.<collection>.delete(id)
Remove(collection, id) == [x \in (DOMAIN collection) \ {id} |-> collection[x]]

\* getCard, getSet, getUser: db.<collection>.get(id) || null
Get(collection, id) ==
    [store |-> collection,
     result |-> IF id \in DOMAIN collection THEN collection[id] ELSE Null]

\* createCard, createSet, createUser: db.<collection>.set(record.id, record)
Create(collection, id, record) ==
    [store |-> Put(collection, id, record), result |-> record]

\* updateCard, updateSet, updateUser
Update(collection, id, updates, notFound) ==
    IF id \notin DOMAIN collection
    THEN [store |-> collection, result |-> Thrown(notFound)]
    ELSE [store |-> Put(collection, id, Merge(collection[id], updates)),
          result |-> Merge(collection[id], updates)]

\* deleteCard, deleteSet
Delete(collection, id) == [store |-> Remove(collection, id), result |-> Void]

\* the message of the Error an update throws, per collection
NotFoundMessage(entity) ==
    CASE entity = "card" -> "Card not found"
      [] entity = "set" -> "Set not found"
      [] entity = "user" -> "User not found"

\* the collection of db an entity lives in
Collection(entity) ==
    CASE entity = "card" -> cards
      [] entity = "set" -> sets
      [] entity = "user" -> users

\* one repository call: the collection it is about takes the store the
\* function leaves, the others stay
RepositoryCall(entity, op, id, outcome) ==
    /\ response' = [kind |-> "repository", entity |-> entity, op |-> op, id |-> id,
                    result |-> outcome.result]
    /\ cards' = IF entity = "card" THEN outcome.store ELSE cards
    /\ sets' = IF entity = "set" THEN outcome.store ELSE sets
    /\ users' = IF entity = "user" THEN outcome.store ELSE users
    /\ UNCHANGED <<today, manaState, savedChats, confirmed, ENCRYPTION_KEY, envKey,
                   JWT_SECRET_FINAL, clock, passwordResetTokens, requests, cookie,
                   resetLog, friendRequests>>

GetCall(entity, id) ==
    /\ entity \in {"card", "set", "user"}
    /\ RepositoryCall(entity, "get", id, Get(Collection(entity), id))

CreateCall(entity, id, record) ==
    /\ entity \in {"card", "set", "user"}
    /\ RepositoryCall(entity, "create", id, Create(Collection(entity), id, record))

UpdateCall(entity, id, updates) ==
    /\ entity \in {"card", "set", "user"}
    /\ RepositoryCall(entity, "update", id,
                      Update(Collection(entity), id, updates, NotFoundMessage(entity)))

\* there is no deleteUser
DeleteCall(entity, id) ==
    /\ entity \in {"card", "set"}
    /\ RepositoryCall(entity, "delete", id, Delete(Collection(entity), id))

----------------------------------------------------------------------------
(* Password reset: routes/auth.ts /forgot-password and /reset-password, on   *)
(* the token operations of data/databaseAdapter.ts (JSON mode).  A token     *)
(* record is kept under its token string.  /reset-password gives up the      *)
(* thread at bcrypt.hash and at each write of the files, so it is three      *)
(* steps; requests holds the locals of the requests in flight.               *)

\* expiresAt = Date.now() + 60 * 60 * 1000
ResetTokenHours == 1

ResetTokens == {"t1", "t2"}

notResetVars == <<today, cards, manaState, savedChats, confirmed, sets,
                  ENCRYPTION_KEY, envKey, JWT_SECRET_FINAL, cookie, friendRequests>>

\* crypto.randomBytes(32).toString('hex'): a token never drawn before
FreshTokens == {t \in ResetTokens : <<"issued", t>> \notin resetLog}

\* createPasswordResetToken: the user's earlier tokens go, the new one is set
createPasswordResetToken(tokens, userId, token, expiresAt) ==
    LET kept == {t \in DOMAIN tokens : tokens[t].userId # userId}
    IN  Put([t \in kept |-> tokens[t]], token,
            [userId |-> userId, token |-> token, expiresAt |-> expiresAt])

\* findPasswordResetToken
findPasswordResetToken(tokens, token) ==
    IF token \in DOMAIN tokens THEN tokens[token] ELSE Null

\* deletePasswordResetTokenByToken
deletePasswordResetTokenByToken(tokens, token) == Remove(tokens, token)

\* the response of /forgot-password, from the body's email and the record
\* findUserByEmail returned
ForgotPasswordResponse_Revealing(email, user) ==
    IF email = Absent \/ email = Text(<<>>)
    THEN [status |-> 400, body |-> "Email is required"]
    ELSE IF user = NoUser THEN [status |-> 404, body |-> "User not found"]
    ELSE [status |-> 200, body |-> "If an account with that email exists, a password reset link has been sent."]

ForgotPasswordResponse(email, user) ==
    IF email = Absent \/ email = Text(<<>>)
    THEN [status |-> 400, body |-> "Email is required"]
    ELSE [status |-> 200, body |-> "If an account with that email exists, a password reset link has been sent."]

\* the record /forgot-password looks up; email is Absent or Text(chars)
ForgotPasswordUser(email) ==
    IF email.kind = "text" /\ email.chars # <<>>
    THEN findUserByEmail(NormalizeEmail(email.chars))
    ELSE NoUser

\* POST /forgot-password
ForgotPassword(email) ==
    LET user == ForgotPasswordUser(email)
    IN  /\ response' = [kind |-> "forgot", email |-> email,
                        sent |-> ForgotPasswordResponse(email, user)]
        /\ IF user # NoUser
           THEN \E token \in FreshTokens :
                /\ passwordResetTokens' =
                        createPasswordResetToken(passwordResetTokens, user, token,
                                                 clock + ResetTokenHours)
                /\ resetLog' = resetLog \cup {<<"issued", token>>}
           ELSE UNCHANGED <<passwordResetTokens, resetLog>>
        /\ UNCHANGED <<users, requests, clock>>
        /\ UNCHANGED notResetVars

\* the checks of /reset-password up to bcrypt.hash: the status it answers
\* with at once, or 0 when it goes on to hash the password
ResetCheck(token, passwordOk) ==
    LET tokenRecord == findPasswordResetToken(passwordResetTokens, token)
    IN  IF token = "" THEN 400
        ELSE IF ~passwordOk THEN 400
        ELSE IF tokenRecord = Null THEN 400
        ELSE IF tokenRecord.expiresAt < clock THEN 400
        ELSE IF Get(users, tokenRecord.userId).result = Null THEN 404
        ELSE 0

\* POST /reset-password, first step: validate, find the token, drop it when
\* expired, fetch the user, start hashing
ResetFind(r, token, password, passwordOk) ==
    LET tokenRecord == findPasswordResetToken(passwordResetTokens, token)
        status == ResetCheck(token, passwordOk)
    IN  /\ r \notin DOMAIN requests
        /\ requests' = Put(requests, r,
                [pc |-> IF status = 0 THEN "hashing" ELSE "done",
                 token |-> token, password |-> password, status |-> status,
                 user |-> IF status = 0 THEN tokenRecord.userId ELSE NoUser,
                 record |-> IF status = 0 THEN users[tokenRecord.userId] ELSE Null])
        /\ passwordResetTokens' =
                IF token # "" /\ passwordOk /\ tokenRecord # Null
                   /\ tokenRecord.expiresAt < clock
                THEN deletePasswordResetTokenByToken(passwordResetTokens, token)
                ELSE passwordResetTokens
        /\ response' = NoResponse
        /\ UNCHANGED <<users, resetLog, clock>>
        /\ UNCHANGED notResetVars

\* the updates /reset-password prepares from the record it fetched: the new
\* hash, and email and username encrypted again when they decrypt
ResetUpdates(record, password, iv) ==
    LET e == decryptMessage(record.email)
        n == decryptMessage(record.username)
        withEmail == IF e.ok /\ e.value # <<>>
                     THEN [email |-> encryptMessageWithIV(ToLowerCase(e.value), iv)]
                     ELSE EmptyMap
        withName == IF Falsy(record.username) THEN EmptyMap
                    ELSE IF ~HasColon(record.username)
                         THEN [username |-> encryptMessageWithIV(record.username.chars, iv)]
                    ELSE IF n.ok THEN [username |-> encryptMessageWithIV(n.value, iv)]
                    ELSE EmptyMap
    IN  Merge(Merge([passwordHash |-> Hash(password)], withEmail), withName)

\* second step, once the hash is there: updateUser, which throws (answered
\* with 500) when the user is gone
ResetUpdate(r, iv) ==
    /\ r \in DOMAIN requests
    /\ requests[r].pc = "hashing"
    /\ LET req == requests[r]
           written == Update(users, req.user,
                             ResetUpdates(req.record, req.password, iv), "User not found")
       IN  /\ users' = written.store
           /\ IF written.result = Thrown("User not found")
              THEN /\ requests' = [requests EXCEPT ![r].pc = "done", ![r].status = 500]
                   /\ UNCHANGED resetLog
              ELSE /\ requests' = [requests EXCEPT ![r].pc = "updated"]
                   /\ resetLog' = resetLog \cup {<<"changed", req.token, r>>}
    /\ response' = NoResponse
    /\ UNCHANGED <<passwordResetTokens, clock>>
    /\ UNCHANGED notResetVars

\* third step, once the files are written: remove the token and answer
ResetDelete(r) ==
    /\ r \in DOMAIN requests
    /\ requests[r].pc = "updated"
    /\ passwordResetTokens' =
            deletePasswordResetTokenByToken(passwordResetTokens, requests[r].token)
    /\ requests' = [requests EXCEPT ![r].pc = "done", ![r].status = 200]
    /\ response' = NoResponse
    /\ UNCHANGED <<users, resetLog, clock>>
    /\ UNCHANGED notResetVars

----------------------------------------------------------------------------
(* Handlers in flight.  A handler gives up the thread at every await on the  *)
(* files, so another request can run between its read and its write.  Here   *)
(* requests holds the locals of the handlers in flight: what each one read   *)
(* (user, file), the day it took from getTodayDate() when it began, and      *)
(* where it stands (pc).                                                     *)

notLedgerVars == <<cards, savedChats, confirmed, ENCRYPTION_KEY, envKey,
                   JWT_SECRET_FINAL, clock, sets, passwordResetTokens, cookie,
                   resetLog, friendRequests, response>>

\* mutant: the count is read again from the store when it is written
UpdatedTokens_FromStore(req) ==
    Max(0, OrDefault(users[req.userId].manaReloadTokens, 0) - 1)

\* Math.max(0, (user.manaReloadTokens || 0) - 1), user being the record the
\* handler fetched when it began
UpdatedTokens(req) == Max(0, OrDefault(req.user.manaReloadTokens, 0) - 1)

\* POST /card/:cardId/reload, up to the call of setCurrentMana: getUser,
\* getCard, the checks, the base with its collection bonus
ReloadBegin(r, userId, cardId) ==
    LET status == ReloadStatus(userId, cardId)
    IN  /\ r \notin DOMAIN requests
        /\ requests' = Put(requests, r,
                IF status = 200
                THEN [kind |-> "reload", pc |-> "set", userId |-> userId,
                      cardId |-> cardId, user |-> users[userId],
                      baseMana |-> BaseMana(cards[cardId], users[userId]),
                      status |-> 0]
                ELSE [kind |-> "reload", pc |-> "done", userId |-> userId,
                      cardId |-> cardId, status |-> status])
        /\ UNCHANGED <<today, users, manaState>>
        /\ UNCHANGED notLedgerVars

\* await setCurrentMana(cardId, baseMana)
ReloadSet(r) ==
    /\ r \in DOMAIN requests
    /\ requests[r].kind = "reload" /\ requests[r].pc = "set"
    /\ manaState' = SetCurrentMana(manaState, cards, requests[r].cardId,
                                   Whole(requests[r].baseMana), today).ms
    /\ requests' = [requests EXCEPT ![r].pc = "update"]
    /\ UNCHANGED <<today, users>>
    /\ UNCHANGED notLedgerVars

\* await updateUser(userId, { manaReloadTokens: updatedTokens }), and the
\* response
ReloadUpdate(r) ==
    /\ r \in DOMAIN requests
    /\ requests[r].kind = "reload" /\ requests[r].pc = "update"
    /\ LET req == requests[r]
           written == Update(users, req.userId,
                             [manaReloadTokens |-> UpdatedTokens(req)],
                             "User not found")
       IN  /\ users' = written.store
           /\ requests' = [requests EXCEPT
                    ![r].pc = "done",
                    ![r].status = IF written.result = Thrown("User not found")
                                  THEN 500 ELSE 200]
    /\ UNCHANGED <<today, manaState>>
    /\ UNCHANGED notLedgerVars

\* cardState?.currentMana ?? baseMana, on the copy of the file a call read
SeenMana(req) ==
    IF req.cardId \in DOMAIN req.file THEN req.file[req.cardId].currentMana
    ELSE OrDefault(cards[req.cardId].mana, 5)

\* depleteMana up to its call of rechargeManaIfNeeded: the card, today's
\* date, the ledger file
DepleteBegin(r, cardId) ==
    /\ r \notin DOMAIN requests
    /\ requests' = Put(requests, r,
            IF cardId \notin DOMAIN cards
            THEN [kind |-> "deplete", pc |-> "done", cardId |-> cardId, ret |-> 0]
            ELSE [kind |-> "deplete", pc |-> "recharge", cardId |-> cardId,
                  day |-> today, file |-> manaState, ret |-> Unset])
    /\ UNCHANGED <<today, users, manaState>>
    /\ UNCHANGED notLedgerVars

\* await rechargeManaIfNeeded(cardId), without an override
DepleteRecharge(r) ==
    /\ r \in DOMAIN requests
    /\ requests[r].kind = "deplete" /\ requests[r].pc = "recharge"
    /\ manaState' = RechargeManaIfNeeded(manaState, cards, requests[r].cardId,
                                         Unset, today).ms
    /\ requests' = [requests EXCEPT ![r].pc = "write"]
    /\ UNCHANGED <<today, users>>
    /\ UNCHANGED notLedgerVars

\* the rest of depleteMana: the decrement on the copy read at first, and the
\* write of that whole copy
DepleteWrite(r) ==
    /\ r \in DOMAIN requests
    /\ requests[r].kind = "deplete" /\ requests[r].pc = "write"
    /\ LET req == requests[r]
           newMana == DepleteFloor(SeenMana(req))
       IN  /\ manaState' = Put(req.file, req.cardId,
                               [lastRechargeDate |-> req.day, currentMana |-> newMana])
           /\ requests' = [requests EXCEPT ![r].pc = "done", ![r].ret = newMana]
    /\ UNCHANGED <<today, users>>
    /\ UNCHANGED notLedgerVars

----------------------------------------------------------------------------
(* Friend requests: routes/friendRequests.ts.  A user record carries here    *)
(* friendIds and friendRequestIds.  A repository write changes the Map when  *)
(* it is called and gives up the thread until the files are saved, so a      *)
(* handler is one step up to and including its first write, and one step     *)
(* for each write after it; requests holds the writes a handler has yet to   *)
(* make, computed from the records it fetched when it began.                 *)

FriendRequestIds == <<"f1", "f2">>

\* uuid(): the first id no request has
FreshRequestIds == {i \in DOMAIN FriendRequestIds :
                        FriendRequestIds[i] \notin DOMAIN friendRequests}
NextRequestId ==
    FriendRequestIds[CHOOSE i \in FreshRequestIds : \A j \in FreshRequestIds : i <= j]

\* allFriendRequests.find(from, to, pending): the first in insertion order
FindPending(from, to) ==
    LET hits == {i \in DOMAIN FriendRequestIds :
                    /\ FriendRequestIds[i] \in DOMAIN friendRequests
                    /\ friendRequests[FriendRequestIds[i]].fromUserId = from
                    /\ friendRequests[FriendRequestIds[i]].toUserId = to
                    /\ friendRequests[FriendRequestIds[i]].status = "pending"}
    IN  IF hits = {} THEN Null
        ELSE friendRequests[FriendRequestIds[CHOOSE i \in hits : \A j \in hits : i <= j]]

\* a handler answers at once, or waits for the save of its first write with
\* the writes in pending still to make
FriendHandler(r, status, pending) ==
    /\ r \notin DOMAIN requests
    /\ IF status = 200 /\ pending # <<>>
       THEN /\ requests' = Put(requests, r, [kind |-> "friends", pending |-> pending])
            /\ response' = NoResponse
       ELSE /\ requests' = requests
            /\ response' = [kind |-> "friends", status |-> status]
    /\ UNCHANGED <<today, cards, manaState, savedChats, confirmed, ENCRYPTION_KEY,
                   envKey, JWT_SECRET_FINAL, clock, sets, passwordResetTokens,
                   cookie, resetLog>>

\* POST /:userId: the status of the response
SendStatus(currentUserId, userId) ==
    IF userId = currentUserId THEN 400
    ELSE IF currentUserId \notin DOMAIN users \/ userId \notin DOMAIN users THEN 404
    ELSE IF userId \in users[currentUserId].friendIds
            \/ currentUserId \in users[userId].friendIds THEN 400
    ELSE IF FindPending(currentUserId, userId) # Null THEN 400
    ELSE 200

\* POST /:userId (send a friend request, or accept the one the other user
\* sent): up to the first write, createFriendRequest or updateFriendRequest
SendFriendRequest(r, currentUserId, userId) ==
    LET status == SendStatus(currentUserId, userId)
        reverseRequest == FindPending(userId, currentUserId)
        currentUser == users[currentUserId]
        targetUser == users[userId]
    IN  IF status # 200
        THEN FriendHandler(r, status, <<>>) /\ UNCHANGED <<users, friendRequests>>
        ELSE IF reverseRequest # Null
        THEN /\ friendRequests' =
                    [friendRequests EXCEPT ![reverseRequest.id].status = "accepted"]
             /\ FriendHandler(r, 200,
                    <<<<currentUserId, [friendIds |-> currentUser.friendIds \cup {userId}]>>,
                      <<userId, [friendIds |-> targetUser.friendIds \cup {currentUserId}]>> >>)
             /\ UNCHANGED users
        ELSE /\ FreshRequestIds # {}
             /\ friendRequests' = Put(friendRequests, NextRequestId,
                    [id |-> NextRequestId, fromUserId |-> currentUserId,
                     toUserId |-> userId, status |-> "pending"])
             /\ FriendHandler(r, 200,
                    <<<<currentUserId, [friendRequestIds |->
                            currentUser.friendRequestIds \cup {NextRequestId}]>> >>)
             /\ UNCHANGED users

\* the checks accept and decline share
AnswerStatus(requestId, currentUserId) ==
    IF requestId \notin DOMAIN friendRequests THEN 404
    ELSE IF friendRequests[requestId].toUserId # currentUserId THEN 403
    ELSE IF friendRequests[requestId].status # "pending" THEN 400
    ELSE IF friendRequests[requestId].fromUserId \notin DOMAIN users
            \/ currentUserId \notin DOMAIN users THEN 404
    ELSE 200

\* POST /:requestId/accept, up to updateFriendRequest
AcceptFriendRequest(r, requestId, currentUserId) ==
    LET status == AnswerStatus(requestId, currentUserId)
    IN  IF status # 200
        THEN FriendHandler(r, status, <<>>) /\ UNCHANGED <<users, friendRequests>>
        ELSE LET from == friendRequests[requestId].fromUserId
                 fromUser == users[from]
                 toUser == users[currentUserId]
             IN  /\ friendRequests' = [friendRequests EXCEPT ![requestId].status = "accepted"]
                 /\ FriendHandler(r, 200,
                        <<<<from, [friendIds |-> fromUser.friendIds \cup {currentUserId},
                                   friendRequestIds |-> fromUser.friendRequestIds \ {requestId}]>>,
                          <<currentUserId, [friendIds |-> toUser.friendIds \cup {from}]>> >>)
                 /\ UNCHANGED users

\* POST /:requestId/decline, up to updateFriendRequest
DeclineFriendRequest(r, requestId, currentUserId) ==
    LET status == AnswerStatus(requestId, currentUserId)
    IN  IF status # 200
        THEN FriendHandler(r, status, <<>>) /\ UNCHANGED <<users, friendRequests>>
        ELSE LET from == friendRequests[requestId].fromUserId
             IN  /\ friendRequests' = [friendRequests EXCEPT ![requestId].status = "declined"]
                 /\ FriendHandler(r, 200,
                        <<<<from, [friendRequestIds |->
                                users[from].friendRequestIds \ {requestId}]>> >>)
                 /\ UNCHANGED users

\* the save is done: the handler makes its next updateUser, and answers when
\* none is left
AwaitedUpdateUser(r) ==
    /\ r \in DOMAIN requests
    /\ requests[r].kind = "friends"
    /\ LET next == Head(requests[r].pending)
           rest == Tail(requests[r].pending)
           written == Update(users, next[1], next[2], "User not found")
       IN  /\ users' = written.store
           /\ IF written.result = Thrown("User not found")
              THEN /\ requests' = Remove(requests, r)
                   /\ response' = [kind |-> "friends", status |-> 500]
              ELSE IF rest = <<>>
              THEN /\ requests' = Remove(requests, r)
                   /\ response' = [kind |-> "friends", status |-> 200]
              ELSE /\ requests' = [requests EXCEPT ![r].pending = rest]
                   /\ response' = NoResponse
    /\ UNCHANGED <<today, cards, manaState, savedChats, confirmed, ENCRYPTION_KEY,
                   envKey, JWT_SECRET_FINAL, clock, sets, passwordResetTokens,
                   cookie, resetLog, friendRequests>>

----------------------------------------------------------------------------
(* Login and token verification: routes/auth.ts POST /login and GET /verify, *)
(* a step for each await.  A user record carries here email, username,       *)
(* passwordHash, manaReloadTokens and lastLoginDate.  A repository write     *)
(* changes the Map and then saves the files; the save can fail, and then     *)
(* the write rejects with the Map already changed.                           *)

notLoginVars == <<today, cards, manaState, savedChats, confirmed, ENCRYPTION_KEY,
                  envKey, JWT_SECRET_FINAL, clock, sets, passwordResetTokens,
                  resetLog, friendRequests>>

\* POST /login up to the username block: findUserByEmail, the passwordHash
\* check, bcrypt.compare
LoginStatus(email, passwordOk) ==
    IF email = <<>> THEN 400
    ELSE IF findUserByEmail(NormalizeEmail(email)) = NoUser THEN 401
    ELSE IF Falsy(users[findUserByEmail(NormalizeEmail(email))].passwordHash) THEN 401
    ELSE IF ~passwordOk THEN 401
    ELSE 0

LoginBegin(r, email, passwordOk) ==
    LET status == LoginStatus(email, passwordOk)
        userId == findUserByEmail(NormalizeEmail(email))
    IN  /\ r \notin DOMAIN requests
        /\ requests' = Put(requests, r,
                IF status = 0
                THEN [kind |-> "login", pc |-> "username", userId |-> userId,
                      user |-> users[userId], status |-> 0]
                ELSE [kind |-> "login", pc |-> "respond", userId |-> NoUser,
                      user |-> Null, status |-> status])
        /\ UNCHANGED <<users, cookie, response>>
        /\ UNCHANGED notLoginVars

\* GET /verify up to the username block: the authToken cookie, verifyToken,
\* getUser
VerifyStatus(token) ==
    IF token = Absent THEN 401
    ELSE IF verifyToken(token) = NullPayload THEN 401
    ELSE IF Get(users, verifyToken(token).userId).result = Null THEN 404
    ELSE 0

VerifyBegin(r, token) ==
    LET status == VerifyStatus(token)
    IN  /\ r \notin DOMAIN requests
        /\ requests' = Put(requests, r,
                IF status = 0
                THEN [kind |-> "verify", pc |-> "username",
                      userId |-> verifyToken(token).userId,
                      user |-> users[verifyToken(token).userId], status |-> 0]
                ELSE [kind |-> "verify", pc |-> "respond", userId |-> NoUser,
                      user |-> Null, status |-> status])
        /\ UNCHANGED <<users, cookie, response>>
        /\ UNCHANGED notLoginVars

\* the username as the inner try reads it: the text of a stored string
\* without a colon, else what decryptMessage returns or throws
ReadUsername(stored) ==
    IF HasColon(stored) THEN decryptMessage(stored) ELSE Returned(stored.chars)

\* where a handler goes after its username block
AfterUsername(req) == IF req.kind = "login" THEN "grant" ELSE "respond"

\* the username block up to its first write: the username that reads is
\* written back encrypted anew, the one that does not is cleared
Reencrypt(r, iv) ==
    /\ r \in DOMAIN requests
    /\ requests[r].pc = "username"
    /\ LET req == requests[r]
           read == ReadUsername(req.user.username)
       IN  IF Falsy(req.user.username)
           THEN /\ requests' = [requests EXCEPT ![r].pc = AfterUsername(req)]
                /\ UNCHANGED users
           ELSE /\ users' = Update(users, req.userId,
                                   [username |-> IF read.ok
                                                 THEN encryptMessageWithIV(read.value, iv)
                                                 ELSE Absent],
                                   "User not found").store
                /\ requests' = [requests EXCEPT
                        ![r].pc = IF read.ok THEN "saving" ELSE AfterUsername(req)]
    /\ UNCHANGED <<cookie, response>>
    /\ UNCHANGED notLoginVars

\* the write of the re-encrypted username resolves, or rejects: the catch of
\* the inner try then clears the username
ReencryptSaved(r, saved) ==
    /\ r \in DOMAIN requests
    /\ requests[r].pc = "saving"
    /\ users' = IF saved THEN users
                ELSE Update(users, requests[r].userId, [username |-> Absent],
                            "User not found").store
    /\ requests' = [requests EXCEPT ![r].pc = AfterUsername(requests[r])]
    /\ UNCHANGED <<cookie, response>>
    /\ UNCHANGED notLoginVars

\* the daily grant of POST /login: const currentUser = await getUser(user.id)
GrantRead(r) ==
    /\ r \in DOMAIN requests
    /\ requests[r].pc = "grant"
    /\ requests' = [requests EXCEPT
            ![r] = Merge(@, [pc |-> "write", day |-> today,
                             currentUser |-> Get(users, requests[r].userId).result])]
    /\ UNCHANGED <<users, cookie, response>>
    /\ UNCHANGED notLoginVars

\* mutant: the count is read again from the store when it is written
GrantUpdates_FromStore(req) ==
    [manaReloadTokens |-> Min(5, OrDefault(users[req.userId].manaReloadTokens, 0) + 1),
     lastLoginDate |-> req.day]

\* { manaReloadTokens: newTokenCount, lastLoginDate: today }
GrantUpdates(req) ==
    [manaReloadTokens |-> DailyGrant(req.currentUser.manaReloadTokens),
     lastLoginDate |-> req.day]

\* the daily grant: the date check and await updateUser
GrantWrite(r) ==
    /\ r \in DOMAIN requests
    /\ requests[r].pc = "write"
    /\ LET req == requests[r]
       IN  users' = IF req.currentUser # Null /\ req.currentUser.lastLoginDate # req.day
                    THEN Update(users, req.userId, GrantUpdates(req),
                                "User not found").store
                    ELSE users
    /\ requests' = [requests EXCEPT ![r].pc = "respond"]
    /\ UNCHANGED <<cookie, response>>
    /\ UNCHANGED notLoginVars

\* the response: an error, or decryptUserData of the record fetched at first,
\* with the authToken cookie when the request was a login
Respond(r, iv) ==
    /\ r \in DOMAIN requests
    /\ requests[r].pc = "respond"
    /\ LET req == requests[r]
       IN  IF req.status # 0
           THEN /\ response' = [kind |-> req.kind, status |-> req.status, body |-> Null]
                /\ UNCHANGED cookie
           ELSE /\ response' = [kind |-> req.kind, status |-> 200,
                                body |-> decryptUserData(req.user)]
                /\ cookie' = IF req.kind = "login"
                             THEN [kind |-> "authToken",
                                   token |-> generateToken(req.userId, req.user.email, iv),
                                   userId |-> req.userId, email |-> req.user.email,
                                   issuedAt |-> clock, key |-> ENCRYPTION_KEY,
                                   secret |-> JWT_SECRET_FINAL]
                             ELSE cookie
    /\ requests' = [requests EXCEPT ![r].pc = "done"]
    /\ UNCHANGED users
    /\ UNCHANGED notLoginVars

----------------------------------------------------------------------------
(* Authentication middleware: middleware/auth.ts.  A request is the          *)
(* authToken cookie and the x-auth-token and x-user-id headers it carries;   *)
(* NoUser stands for a missing x-user-id header.                             *)

Admitted(userId) == [next |-> TRUE, userId |-> userId, status |-> 0]
Rejected(status) == [next |-> FALSE, userId |-> NoUser, status |-> status]

\* the token both middlewares look at: the cookie, else the header
RequestToken(req) ==
    IF ~Falsy(req.authToken) THEN req.authToken ELSE req.xAuthToken

\* isUserAdmin: the decrypted isAdmin is 'true', or the stored field is the
\* old literal 'true' when it does not decrypt
isUserAdmin(user) ==
    IF "isAdmin" \notin DOMAIN user \/ Falsy(user.isAdmin) THEN FALSE
    ELSE IF decryptMessage(user.isAdmin).ok
         THEN decryptMessage(user.isAdmin).value = <<"true">>
         ELSE user.isAdmin = Text(<<"true">>)

\* requireAuth: next() with req.userId set, or the status it answers
requireAuth(req) ==
    LET token == RequestToken(req)
    IN  IF Falsy(token)
        THEN IF req.xUserId # NoUser THEN Admitted(req.xUserId) ELSE Rejected(401)
        ELSE IF verifyToken(token) = NullPayload THEN Rejected(401)
        ELSE Admitted(verifyToken(token).userId)

\* the tail both branches of requireAdmin share: getUser, isUserAdmin
AdmitAdmin(userId) ==
    IF Get(users, userId).result = Null THEN Rejected(404)
    ELSE IF ~isUserAdmin(users[userId]) THEN Rejected(403)
    ELSE Admitted(userId)

requireAdmin(req) ==
    LET token == RequestToken(req)
    IN  IF Falsy(token)
        THEN IF req.xUserId # NoUser THEN AdmitAdmin(req.xUserId) ELSE Rejected(401)
        ELSE IF verifyToken(token) = NullPayload THEN Rejected(401)
        ELSE AdmitAdmin(verifyToken(token).userId)

\* a request reaches a route behind requireAuth
RequireAuthCall(req) ==
    /\ response' = [kind |-> "requireAuth", request |-> req, outcome |-> requireAuth(req)]
    /\ UNCHANGED <<ENCRYPTION_KEY, envKey, JWT_SECRET_FINAL, clock, cookie>>
    /\ UNCHANGED notSessionVars

\* a request reaches a route behind requireAdmin
RequireAdminCall(req) ==
    /\ response' = [kind |-> "requireAdmin", request |-> req, outcome |-> requireAdmin(req)]
    /\ UNCHANGED <<ENCRYPTION_KEY, envKey, JWT_SECRET_FINAL, clock, cookie>>
    /\ UNCHANGED notSessionVars

----------------------------------------------------------------------------
(* What the purchase routes send: routes/purchase.ts, the whole handlers on  *)
(* records that carry the identity fields.                                   *)

ErrorReply(kind, status) == [kind |-> kind, status |-> status, body |-> Null]

\* the updates POST /purchase/card/:cardId writes, when it writes
CardUpdates(user, cardId) ==
    [collectionCardIds |-> user.collectionCardIds \cup {cardId}]

\* POST /purchase/card/:cardId behind requireAuth: getCard, getUser,
\* updateUser when the card is new, res.json(await getUser(userId))
PurchaseCardRoute(userId, cardId) ==
    /\ IF Get(cards, cardId).result = Null \/ Get(users, userId).result = Null
       THEN /\ response' = ErrorReply("purchaseCard", 404)
            /\ UNCHANGED users
       ELSE /\ users' = IF cardId \in users[userId].collectionCardIds THEN users
                        ELSE Update(users, userId, CardUpdates(users[userId], cardId),
                                    "User not found").store
            /\ response' = [kind |-> "purchaseCard", status |-> 200,
                            body |-> Get(users', userId).result]
    /\ UNCHANGED <<ENCRYPTION_KEY, envKey, JWT_SECRET_FINAL>>
    /\ UNCHANGED notIdentityVars

\* the updates POST /purchase/set/:setId writes
SetUpdates(user, setId) ==
    [collectionSetIds |-> user.collectionSetIds \cup {setId},
     collectionCardIds |-> user.collectionCardIds \cup sets[setId].cardIds]

\* POST /purchase/set/:setId behind requireAuth: getSet, getUser, updateUser,
\* res.json(await getUser(userId))
PurchaseSetRoute(userId, setId) ==
    /\ IF Get(sets, setId).result = Null \/ Get(users, userId).result = Null
       THEN /\ response' = ErrorReply("purchaseSet", 404)
            /\ UNCHANGED users
       ELSE /\ users' = Update(users, userId, SetUpdates(users[userId], setId),
                               "User not found").store
            /\ response' = [kind |-> "purchaseSet", status |-> 200,
                            body |-> Get(users', userId).result]
    /\ UNCHANGED <<ENCRYPTION_KEY, envKey, JWT_SECRET_FINAL>>
    /\ UNCHANGED notIdentityVars

----------------------------------------------------------------------------
(* Specifications *)

\* the store at start-up: the catalog, an empty ledger, and one user record
\* (u2) that predates the token fields
Init ==
    /\ today = 0
    /\ users = [u \in {"u2"} |-> LegacyUser]
    /\ cards = InitCards
    /\ manaState = EmptyMap
    /\ savedChats = EmptyMap
    /\ confirmed = {}
    /\ AuxAtRest

\* the requests clients send
CardInputs == {"c1", MissingCard}
ChatInputs == {<<"plain", "completion">>}
ChatCards == {"c1"}

IncreaseSession == Session("cs_increase", "paid", "mana_increase", "u1", 1, "", "")
IncreaseCardSession == Session("cs_increase_card", "paid", "mana_increase_card", "u2", 1, "c1", "")
ReloadSession == Session("cs_reload", "paid", "mana_reload", "u1", 5, "", "")
UnpaidSession == Session("cs_unpaid", "unpaid", "mana_reload", "u1", 3, "", "")

LedgerSessions == {IncreaseSession, IncreaseCardSession}
TokenSessions == {ReloadSession, UnpaidSession}

\* the mana ledger under every route that reaches it
Next ==
    \/ \E u \in UserIds : Register(u, TRUE)
    \/ \E u \in UserIds : PurchaseCard(u, "c1")
    \/ \E u \in UserIds, s \in SetIds : PurchaseSet(u, s)
    \/ NextDay
    \/ \E u \in UserIds, c \in CardInputs : GetManaRoute(u, c)
    \/ \E u \in UserIds, c \in CardInputs : DepleteRoute(u, c)
    \/ \E u \in UserIds, c \in CardInputs : ReloadRoute(u, c)
    \/ \E u \in UserIds, c \in CardInputs : IncreaseRoute(u, c)
    \/ \E u \in UserIds, c \in ChatCards, m \in ChatInputs : SaveChat(u, c, m)
    \/ \E u \in UserIds, s \in LedgerSessions : Confirm(u, s)

Spec == Init /\ [][Next]_vars

\* the reload-token count under registration, login, redemption and purchase
NextTokens ==
    \/ \E u \in UserIds, v \in BOOLEAN : Register(u, v)
    \/ \E u \in UserIds, v \in BOOLEAN : Login(u, v)
    \/ \E u \in UserIds : PurchaseCard(u, "c2")
    \/ NextDay
    \/ \E u \in UserIds : ReloadRoute(u, "c2")
    \/ \E u \in UserIds, s \in TokenSessions : Confirm(u, s)

\* the store at start-up with no user yet
InitTokens ==
    /\ today = 0
    /\ users = EmptyMap
    /\ cards = InitCards
    /\ manaState = EmptyMap
    /\ savedChats = EmptyMap
    /\ confirmed = {}
    /\ AuxAtRest

SpecTokens == InitTokens /\ [][NextTokens]_vars

\* the emails, names and profile texts requests carry
EmailA == <<"a", "@", "x", ".", "y">>
EmailAShouted == <<" ", "A", "@", "x", ".", "y">>
EmailB == <<"b", "@", "x", ".", "y">>
EmailBad == <<"a", "@", "x">>
EmailInputs == {EmailA, EmailAShouted, EmailB, EmailBad}

NameInputs == {<<>>, <<"n">>}

ProfileBody(bio, interests, location) ==
    [email |-> Absent, username |-> Absent,
     bio |-> bio, interests |-> interests, location |-> location]

ProfileInputs ==
    {ProfileBody(Text(<<"b">>), Text(<<"i">>), Text(<<"l">>)),
     ProfileBody(Text(<<>>), Absent, Absent)}

\* records written before the email was encrypted, or without an email
LegacyPlain ==
    [email |-> Text(<<"A", "@", "x", ".", "y">>), username |-> Text(<<"n">>),
     bio |-> Absent, interests |-> Absent, location |-> Absent,
     passwordHash |-> Hash("Passw0rd")]

LegacyNoEmail == [LegacyPlain EXCEPT !.email = Absent]

LegacyRecords == {LegacyPlain, LegacyNoEmail}

\* the texts handed to encryptMessage directly
MaxLen == 2
CipherUnits == {"a", ":", Hi, Lo}
CipherTexts == UNION {[1..n -> CipherUnits] : n \in 1..MaxLen}

\* encryptMessageWithIV twice on the same text and IV, then decryptMessage
EncryptDecryptCall(text, iv) ==
    /\ response' = [kind |-> "cipher", text |-> text,
                    first |-> encryptMessageWithIV(text, iv),
                    second |-> encryptMessageWithIV(text, iv),
                    decrypted |-> decryptMessage(encryptMessageWithIV(text, iv))]
    /\ UNCHANGED <<users, ENCRYPTION_KEY, envKey, JWT_SECRET_FINAL>>
    /\ UNCHANGED notIdentityVars

\* a store with one legacy record, under any key configuration
InitIdentity ==
    /\ today = 0
    /\ cards = InitCards
    /\ manaState = EmptyMap
    /\ savedChats = EmptyMap
    /\ confirmed = {}
    /\ clock = 0
    /\ sets = SetCatalog
    /\ passwordResetTokens = EmptyMap
    /\ requests = EmptyMap
    /\ JWT_SECRET_FINAL = "s1"
    /\ cookie = NoCookie
    /\ resetLog = {}
    /\ friendRequests = EmptyMap
    /\ response = NoResponse
    /\ \E legacy \in LegacyRecords : users = [u \in {"u1"} |-> legacy]
    /\ \E env \in Keys \cup {NoKey}, keyFile \in Keys :
        /\ envKey = env
        /\ ENCRYPTION_KEY = getEncryptionKey(env, keyFile)

\* the IV crypto.randomBytes draws in the routes
RouteIVs == {"iv1"}

NextIdentity ==
    \/ \E e \in EmailInputs, n \in NameInputs, ok \in BOOLEAN, iv \in RouteIVs :
            RegisterIdentity(e, n, ok, iv)
    \/ \E b \in ProfileInputs, iv \in RouteIVs : UpdateProfile("u2", b, iv)
    \/ \E env \in Keys \cup {NoKey}, keyFile \in Keys : Restart(env, keyFile, "s1")
    \/ \E u \in {"u1", "u2"} : DecryptUserDataCall(u)
    \/ \E e \in EmailInputs : FindUserByEmailCall(e)

SpecIdentity == InitIdentity /\ [][NextIdentity]_vars

\* the cipher alone, on every text, under every key configuration
NextCipher ==
    \/ \E t \in CipherTexts, iv \in IVs : EncryptDecryptCall(t, iv)
    \/ \E env \in Keys \cup {NoKey}, keyFile \in Keys : Restart(env, keyFile, "s1")

SpecCipher == InitIdentity /\ [][NextCipher]_vars

\* the stored email a credential is issued for, and credentials nobody issued
SessionEmail == Cipher("iv1", "k1", Utf8Encode(EmailA))

ForeignTokens ==
    {Text(<<"junk">>), Absent,
     Cipher("iv1", "k1", <<"junk">>), Cipher("iv1", "k2", <<"junk">>)}

PresentedTokens ==
    ForeignTokens \cup (IF cookie = NoCookie THEN {} ELSE {cookie.token})

InitSession ==
    /\ today = 0
    /\ users = EmptyMap
    /\ cards = InitCards
    /\ manaState = EmptyMap
    /\ savedChats = EmptyMap
    /\ confirmed = {}
    /\ clock = 0
    /\ sets = SetCatalog
    /\ passwordResetTokens = EmptyMap
    /\ requests = EmptyMap
    /\ resetLog = {}
    /\ friendRequests = EmptyMap
    /\ cookie = NoCookie
    /\ response = NoResponse
    /\ JWT_SECRET_FINAL = "s1"
    /\ envKey = "k1"
    /\ ENCRYPTION_KEY = getEncryptionKey("k1", "k1")

NextSession ==
    \/ \E iv \in RouteIVs : GenerateTokenCall("u1", SessionEmail, iv)
    \/ \E t \in PresentedTokens : VerifyTokenCall(t)
    \/ Tick
    \/ \E env \in Keys, secret \in Secrets : Restart(env, "k1", secret)

SpecSession == InitSession /\ [][NextSession]_vars

\* ids, records and updates the repository is called with
Entities == {"card", "set", "user"}

RepositoryIds(entity) ==
    CASE entity = "card" -> {"c1", MissingCard}
      [] entity = "set" -> {"s1", "sX"}
      [] entity = "user" -> {"u1", "uX"}

NewRecord(entity) ==
    CASE entity = "card" -> [mana |-> 3, devotion |-> Unset, character |-> "B"]
      [] entity = "set" -> [character |-> "B", cardIds |-> {"c2"}]
      [] entity = "user" -> LegacyUser

RepositoryUpdates(entity) ==
    CASE entity = "card" -> [devotion |-> 2]
      [] entity = "set" -> [character |-> "C"]
      [] entity = "user" -> [manaReloadTokens |-> 2]

InitRepository ==
    /\ today = 0
    /\ users = EmptyMap
    /\ cards = InitCards
    /\ manaState = EmptyMap
    /\ savedChats = EmptyMap
    /\ confirmed = {}
    /\ AuxAtRest

NextRepository ==
    \/ \E e \in Entities : \E id \in RepositoryIds(e) : GetCall(e, id)
    \/ \E e \in Entities : \E id \in RepositoryIds(e) : CreateCall(e, id, NewRecord(e))
    \/ \E e \in Entities : \E id \in RepositoryIds(e) : UpdateCall(e, id, RepositoryUpdates(e))
    \/ \E e \in Entities : \E id \in RepositoryIds(e) : DeleteCall(e, id)

SpecRepository == InitRepository /\ [][NextRepository]_vars

\* the numbers setCurrentMana is called with: whole numbers and tenths
MaxNum == 39
ManaNumbers == {Number(n, d) : n \in (0 - MaxNum)..MaxNum, d \in {1, 10}}

\* a caller hands setCurrentMana a card id and a number
SetCurrentManaCall(cardId, value) ==
    LET set == SetCurrentMana(manaState, cards, cardId, value, today)
    IN  /\ manaState' = set.ms
        /\ response' = [kind |-> "setCurrentMana", cardId |-> cardId,
                        value |-> value, ret |-> set.ret]
        /\ UNCHANGED <<today, users, cards, savedChats, confirmed, ENCRYPTION_KEY,
                       envKey, JWT_SECRET_FINAL, clock, sets, passwordResetTokens,
                       requests, cookie, resetLog, friendRequests>>

NextSetMana ==
    \E c \in CardInputs, v \in ManaNumbers : SetCurrentManaCall(c, v)

SpecSetMana == Init /\ [][NextSetMana]_vars

\* a user registered under the key of the process
RegisteredA ==
    [email |-> Cipher("iv1", "k1", Utf8Encode(EmailA)), username |-> Absent,
     bio |-> Absent, interests |-> Absent, location |-> Absent,
     passwordHash |-> Hash("Passw0rd")]

\* the bodies of /forgot-password and /reset-password requests
ForgotInputs == {Text(EmailA), Text(EmailAShouted), Text(EmailB), Text(<<" ">>), Absent}
RequestIds == {"r1", "r2"}
TokenInputs == ResetTokens \cup {""}
NewPasswords == {"Passw0rd2", "Passw0rd3"}

MaxResetClock == 2

InitReset ==
    /\ today = 0
    /\ users = [u \in {"u1"} |-> RegisteredA]
    /\ cards = InitCards
    /\ manaState = EmptyMap
    /\ savedChats = EmptyMap
    /\ confirmed = {}
    /\ AuxAtRest

NextReset ==
    \/ \E e \in ForgotInputs : ForgotPassword(e)
    \/ \E r \in RequestIds, t \in TokenInputs, p \in NewPasswords, ok \in BOOLEAN :
            ResetFind(r, t, p, ok)
    \/ \E r \in RequestIds, iv \in RouteIVs : ResetUpdate(r, iv)
    \/ \E r \in RequestIds : ResetDelete(r)
    \/ (clock < MaxResetClock /\ Tick)

SpecReset == InitReset /\ [][NextReset]_vars

\* two redemptions and two ledger calls in flight at most
ReloadRequests == {"r1", "r2"}
LedgerRequests == {"r3", "r4"}

MaxRaceDay == 1

\* a user with two reload tokens who owns both cards, and a ledger that
\* holds a record for each, both below the card's base
RaceUser ==
    [manaReloadTokens |-> 2, manaIncreaseTokens |-> 0, lastLoginDate |-> 0,
     collectionCardIds |-> {"c1", "c2"}, collectionSetIds |-> {}]

RaceLedger ==
    [c \in CardIds |-> [lastRechargeDate |-> 0,
                        currentMana |-> IF c = "c1" THEN 3 ELSE 1]]

InitRace ==
    /\ today = 0
    /\ users = [u \in {"u1"} |-> RaceUser]
    /\ cards = InitCards
    /\ manaState = RaceLedger
    /\ savedChats = EmptyMap
    /\ confirmed = {}
    /\ AuxAtRest

NextRace ==
    \/ \E r \in ReloadRequests : ReloadBegin(r, "u1", "c2")
    \/ \E r \in ReloadRequests : ReloadSet(r)
    \/ \E r \in ReloadRequests : ReloadUpdate(r)
    \/ \E r \in LedgerRequests, c \in CardInputs : DepleteBegin(r, c)
    \/ \E r \in LedgerRequests : DepleteRecharge(r)
    \/ \E r \in LedgerRequests : DepleteWrite(r)
    \/ (today < MaxRaceDay /\ NextDay)

SpecRace == InitRace /\ [][NextRace]_vars

\* three users without friends or requests, two handlers in flight at most
FriendUsers == {"u1", "u2", "u3"}
FriendHandlers == {"r1", "r2"}

InitFriends ==
    /\ today = 0
    /\ users = [u \in FriendUsers |-> [friendIds |-> {}, friendRequestIds |-> {}]]
    /\ cards = InitCards
    /\ manaState = EmptyMap
    /\ savedChats = EmptyMap
    /\ confirmed = {}
    /\ AuxAtRest

NextFriends ==
    \/ \E r \in FriendHandlers, a, b \in FriendUsers : SendFriendRequest(r, a, b)
    \/ \E r \in FriendHandlers, f \in {"f1", "f2", "fX"}, u \in FriendUsers :
            AcceptFriendRequest(r, f, u)
    \/ \E r \in FriendHandlers, f \in {"f1", "f2", "fX"}, u \in FriendUsers :
            DeclineFriendRequest(r, f, u)
    \/ \E r \in FriendHandlers : AwaitedUpdateUser(r)

SpecFriends == InitFriends /\ [][NextFriends]_vars

\* the message lists a client saves: ChatB and ChatC are ChatA with two
\* messages added, without and with a completed interaction among them
ChatA == <<"keyword1", "plain">>
ChatB == ChatA \o <<"keyword2", "plain">>
ChatC == ChatA \o <<"plain", "completion">>
ChatLists == {ChatA, ChatB, ChatC} \cup ChatInputs

\* chat saves between restarts of the process under either key
NextChat ==
    \/ \E u \in UserIds, c \in ChatCards, m \in ChatLists : SaveChat(u, c, m)
    \/ \E env \in Keys : Restart(env, "k1", "s1")
    \/ NextDay

SpecChat == Init /\ [][NextChat]_vars

\* a registered user who last logged in yesterday, with each kind of stored
\* username and a token count from unset to above the login cap
LoginUsernames == {Cipher("iv2", "k1", Utf8Encode(<<"n">>)), Text(<<"n">>), Absent}
LoginTokens == {Unset, 4, 7}
LoginRequests == {"r1", "r2", "r3"}

InitLogin ==
    /\ today = 1
    /\ \E name \in LoginUsernames, tokens \in LoginTokens :
        users = [u \in {"u1"} |->
                    [email |-> Cipher("iv1", "k1", Utf8Encode(EmailA)),
                     username |-> name, passwordHash |-> Text(<<"hash">>),
                     manaReloadTokens |-> tokens, lastLoginDate |-> 0]]
    /\ cards = InitCards
    /\ manaState = EmptyMap
    /\ savedChats = EmptyMap
    /\ confirmed = {}
    /\ AuxAtRest

NextLogin ==
    \/ \E r \in LoginRequests, e \in {EmailA, EmailB} : LoginBegin(r, e, e = EmailA)
    \/ \E r \in LoginRequests : VerifyBegin(r, IF cookie = NoCookie THEN Absent ELSE cookie.token)
    \/ \E r \in LoginRequests, iv \in RouteIVs : Reencrypt(r, iv)
    \/ \E r \in LoginRequests, saved \in BOOLEAN : ReencryptSaved(r, saved)
    \/ \E r \in LoginRequests : GrantRead(r)
    \/ \E r \in LoginRequests : GrantWrite(r)
    \/ \E r \in LoginRequests, iv \in RouteIVs : Respond(r, iv)

SpecLogin == InitLogin /\ [][NextLogin]_vars


\* an administrator u1 and a plain user u2; the client logs in at hour 0, and
\* its requests carry the cookie it holds or a foreign one, and any x-user-id
GateUsers ==
    [u \in {"u1", "u2"} |->
        [email |-> Cipher("iv1", "k1", Utf8Encode(IF u = "u1" THEN EmailA ELSE EmailB)),
         passwordHash |-> Text(<<"hash">>),
         isAdmin |-> IF u = "u1" THEN Cipher("iv1", "k1", Utf8Encode(<<"true">>))
                     ELSE Absent]]

GateTokens ==
    {Absent, Cipher("iv1", "k2", <<"junk">>)}
        \cup (IF cookie = NoCookie THEN {} ELSE {cookie.token})

GateRequests ==
    [authToken : GateTokens, xAuthToken : GateTokens,
     xUserId : {NoUser, "u1", "u2", "uX"}]

InitGate ==
    /\ today = 0
    /\ users = GateUsers
    /\ cards = InitCards
    /\ manaState = EmptyMap
    /\ savedChats = EmptyMap
    /\ confirmed = {}
    /\ AuxAtRest

NextGate ==
    \/ \E u \in DOMAIN GateUsers, iv \in RouteIVs :
            clock = 0 /\ GenerateTokenCall(u, GateUsers[u].email, iv)
    \/ \E req \in GateRequests : RequireAuthCall(req)
    \/ \E req \in GateRequests : RequireAdminCall(req)
    \/ Tick

SpecGate == InitGate /\ [][NextGate]_vars


\* two registered users with empty collections; each buys cards and sets and
\* has its record read through decryptUserData
Buyer(email) ==
    [email |-> Cipher("iv1", "k1", Utf8Encode(email)), username |-> Text(<<"n">>),
     bio |-> Absent, interests |-> Absent, location |-> Absent,
     passwordHash |-> Hash("Passw0rd"),
     collectionCardIds |-> {}, collectionSetIds |-> {}]

InitPurchase ==
    /\ today = 0
    /\ users = [u \in UserIds |-> Buyer(IF u = "u1" THEN EmailA ELSE EmailB)]
    /\ cards = InitCards
    /\ manaState = EmptyMap
    /\ savedChats = EmptyMap
    /\ confirmed = {}
    /\ AuxAtRest

NextPurchase ==
    \/ \E u \in UserIds \cup {"uX"}, c \in CardIds \cup {MissingCard} :
            PurchaseCardRoute(u, c)
    \/ \E u \in UserIds \cup {"uX"}, s \in SetIds \cup {"sX"} : PurchaseSetRoute(u, s)
    \/ \E u \in UserIds : DecryptUserDataCall(u)

SpecPurchase == InitPurchase /\ [][NextPurchase]_vars

----------------------------------------------------------------------------
(* Claims *)

\* the base mana of a card for one of its owners
OwnerBase(userId, cardId) == BaseMana(cards[cardId], users[userId])

\* what getCurrentMana(cardId, baseMana) would return to this owner now
OwnerReading(userId, cardId) ==
    GetCurrentMana(manaState, cards, cardId, OwnerBase(userId, cardId), today).ret

\* C1: the stored currentMana of a card is within 0..baseMana for every owner
\* of the card, baseMana being that owner's catalog mana plus set bonus.
C1_ManaWithinOwnerBase ==
    \A c \in DOMAIN manaState : \A u \in DOMAIN users :
        Owns(u, c) =>
            /\ manaState[c].currentMana >= 0
            /\ manaState[c].currentMana <= OwnerBase(u, c)

\* C2: every call of depleteMana made for an owner of the card (by the deplete
\* route after its own reading, by the chat save directly) persists
\* max(0, g - 1), g being what getCurrentMana would have returned to that owner
\* immediately before the call.
C2_DepleteIsReadingMinusOne ==
    [][\A u \in UserIds : \A c \in CardIds :
          Owns(u, c) =>
            /\ (DepleteRoute(u, c) /\ DepleteStatus(u, c) = 200)
                  => manaState'[c].currentMana = Max(0, OwnerReading(u, c) - 1)
            /\ \A m \in ChatInputs :
                 (SaveChat(u, c, m) /\ shouldIncrementDevotion(u, c, m))
                  => manaState'[c].currentMana = Max(0, OwnerReading(u, c) - 1)
      ]_vars

\* C3: the currentMana a card stores, and the value depleteMana would return
\* for it now, are never below 0.
C3_ManaNeverNegative ==
    \A c \in CardIds :
        /\ c \in DOMAIN manaState => manaState[c].currentMana >= 0
        /\ DepleteMana(manaState, cards, c, today).ret >= 0
        /\ c \in DOMAIN manaState =>
              DepleteMana(manaState, cards, c, today).ms[c].currentMana >= 0

\* C3 witness: a card exhausted to 0 whose record was stamped after a day change
C3_Witness ==
    /\ "c1" \in DOMAIN manaState
    /\ manaState["c1"].currentMana = 0
    /\ manaState["c1"].lastRechargeDate > 0

\* C4: a reading of a card whose record is stamped on another day stores
\* {today, baseMana} and returns baseMana whatever the record held; a reading
\* of a record stamped today changes nothing and returns the stored value.
C4_RechargeOncePerDay ==
    [][\A u \in UserIds : \A c \in CardIds :
          (GetManaRoute(u, c) /\ GetManaStatus(u, c) = 200 /\ c \in DOMAIN manaState)
          => IF manaState[c].lastRechargeDate # today
             THEN /\ manaState'[c] = [lastRechargeDate |-> today,
                                      currentMana |-> OwnerBase(u, c)]
                  /\ GetManaResult(u, c).ret = OwnerBase(u, c)
                  /\ RechargeManaIfNeeded(manaState', cards, c, OwnerBase(u, c), today).ms
                        = manaState'
             ELSE /\ manaState' = manaState
                  /\ GetManaResult(u, c).ret = manaState[c].currentMana
      ]_vars

\* C4 witness: a record of an earlier day has been reset, on a later day, to
\* the base with bonus of an owner who has spent no token and confirmed no
\* purchase (so only a recharge can have written it)
C4_Witness ==
    /\ today > 0
    /\ confirmed = {}
    /\ AuxAtRest
    /\ "c1" \in DOMAIN manaState
    /\ manaState["c1"].lastRechargeDate = today
    /\ "u1" \in DOMAIN users
    /\ Owns("u1", "c1")
    /\ "s1" \in users["u1"].collectionSetIds
    /\ users["u1"].manaReloadTokens = 1
    /\ manaState["c1"].currentMana = OwnerBase("u1", "c1")
    /\ manaState["c1"].currentMana = 6

\* C5: reload redemption by an owner with a positive token count stores the
\* owner's base mana as currentMana and takes exactly one token; with a count
\* of 0 or unset it changes neither the ledger nor the user.
C5_ReloadRedemption ==
    [][\A u \in UserIds : \A c \in CardIds :
          (ReloadRoute(u, c) /\ Owns(u, c))
          => IF users[u].manaReloadTokens > 0
             THEN /\ manaState'[c].currentMana = OwnerBase(u, c)
                  /\ users'[u].manaReloadTokens = users[u].manaReloadTokens - 1
                  /\ ReloadStatus(u, c) = 200
             ELSE /\ manaState' = manaState
                  /\ users' = users
                  /\ ReloadStatus(u, c) = 400
      ]_vars

\* C5 witness: an owner holding a set of the card's character has spent the
\* last token and the card stores base plus bonus
C5_Witness ==
    \E u \in DOMAIN users :
        /\ Owns(u, "c1")
        /\ "s1" \in users[u].collectionSetIds
        /\ users[u].manaReloadTokens = 0
        /\ "c1" \in DOMAIN manaState
        /\ manaState["c1"].currentMana = OwnerBase(u, "c1")
        /\ manaState["c1"].currentMana = 6

\* C6: increase redemption by an owner with a positive token count stores
\* min(baseMana, current + 1), current being the reading after recharge, and
\* takes exactly one token; with a count of 0 or unset it changes nothing.
C6_IncreaseRedemption ==
    [][\A u \in UserIds : \A c \in CardIds :
          (IncreaseRoute(u, c) /\ Owns(u, c))
          => IF users[u].manaIncreaseTokens > 0
             THEN /\ manaState'[c].currentMana =
                        Min(OwnerBase(u, c), OwnerReading(u, c) + 1)
                  /\ users'[u].manaIncreaseTokens = users[u].manaIncreaseTokens - 1
             ELSE /\ manaState' = manaState
                  /\ users' = users
      ]_vars

\* C6 witness: a purchased increase token has been spent on the card, which
\* stores less than the owner's base
C6_Witness ==
    /\ "cs_increase" \in confirmed
    /\ "u1" \in DOMAIN users
    /\ Owns("u1", "c1")
    /\ users["u1"].manaIncreaseTokens = 0
    /\ "c1" \in DOMAIN manaState
    /\ manaState["c1"].currentMana = 4
    /\ manaState["c1"].currentMana < OwnerBase("u1", "c1")

\* C7: a successful login on a day other than lastLoginDate raises
\* manaReloadTokens by exactly 1 unless it is already 5, and stamps today; a
\* login on the same day changes neither field; the count never exceeds 5
\* through logins.
C7_DailyGrant ==
    [][\A u \in UserIds :
          (Login(u, TRUE) /\ u \in DOMAIN users)
          => IF users[u].lastLoginDate # today
             THEN /\ users'[u].manaReloadTokens =
                        IF users[u].manaReloadTokens = 5 THEN 5
                        ELSE OrDefault(users[u].manaReloadTokens, 0) + 1
                  /\ users'[u].lastLoginDate = today
             ELSE users' = users
      ]_vars

\* C8: every user's manaReloadTokens is an integer in 0..10.
C8_ReloadTokensInRange ==
    \A u \in DOMAIN users : users[u].manaReloadTokens \in 0..10

\* C8 witness: purchases have filled a user's reload tokens to the cap
C8_Witness ==
    \E u \in DOMAIN users :
        /\ users[u].manaReloadTokens = 10
        /\ "cs_reload" \in confirmed

\* C9: a request by a registered user who does not own the card leaves the
\* card's mana state unchanged, on the chat-save route and on the
\* payment-confirm route as on the mana routes.
C9_OwnershipBeforeMutation ==
    [][\A u \in DOMAIN users : \A c \in CardIds :
          ~Owns(u, c) =>
            /\ GetManaRoute(u, c) => manaState' = manaState
            /\ DepleteRoute(u, c) => manaState' = manaState
            /\ ReloadRoute(u, c) => manaState' = manaState
            /\ IncreaseRoute(u, c) => manaState' = manaState
            /\ \A m \in ChatInputs : SaveChat(u, c, m) => manaState' = manaState
            /\ \A s \in LedgerSessions :
                 (Confirm(u, s) /\ s.cardId = c) => manaState' = manaState
      ]_vars

\* C10: a confirm call for a session that was already applied raises nothing
\* again: token counts, card base mana and the ledger stay as they are.
C10_ConfirmAppliesOnce ==
    [][\A u \in UserIds : \A s \in TokenSessions \cup LedgerSessions :
          (Confirm(u, s) /\ ConfirmStatus(u, s) = 200 /\ s.id \in confirmed)
          => /\ users' = users
             /\ cards' = cards
             /\ manaState' = manaState
      ]_vars

\* the key rotation of the claims: the record's email is a ciphertext under a
\* key that is no longer the process key
RotatedEmail(user) ==
    /\ user.email.kind = "cipher"
    /\ user.email.key # ENCRYPTION_KEY

\* the plaintext a ciphertext was made from
Plaintext(stored) == Utf8Decode(stored.bytes)

\* the only secondary key decryptMessage consults is the environment
\* variable, and the cached key is that variable whenever it is set
FallbackIsPrimary == envKey \in {NoKey, ENCRYPTION_KEY}

PlainEmail(user) ==
    /\ user.email.kind = "text"
    /\ user.email.chars # <<>>
    /\ ~HasColon(user.email)

\* C12: a stored email without a colon is taken as plaintext: decryptUserData
\* returns it as the email, and findUserByEmail returns the record for every
\* candidate that equals it up to letter case.
C12_PlaintextEmail ==
    \A u \in DOMAIN users :
        PlainEmail(users[u]) =>
            /\ decryptUserData(users[u]).email = users[u].email
            /\ \A e \in EmailInputs :
                NormalizeEmail(e) = ToLowerCase(users[u].email.chars)
                    => findUserByEmail(e) = u

OptionalFields == {"username", "bio", "interests", "location"}

\* C13: in the view decryptUserData returns, each of username, bio, interests
\* and location whose stored ciphertext cannot be decrypted is absent, and
\* none of the four carries a stored ciphertext.
C13_UndecryptableIsAbsent ==
    \A u \in DOMAIN users : \A f \in OptionalFields :
        LET stored == users[u][f]
            shown == decryptUserData(users[u])[f]
        IN  /\ (stored.kind = "cipher" /\ ~decryptMessage(stored).ok) => shown = Absent
            /\ shown.kind # "cipher"

\* C14: decryptUserData returns for every record a view without
\* passwordHash whose email is the placeholder when the stored email is
\* missing, the plaintext when the stored email decrypts, and the stored
\* string itself otherwise.
C14_EmailNeverDropped ==
    response.kind = "view" =>
        LET user == users[response.userId]
            view == response.view
            d == decryptMessage(user.email)
        IN  /\ "passwordHash" \notin DOMAIN view
            /\ "email" \in DOMAIN view
            /\ view.email = (IF Falsy(user.email) THEN MissingEmail
                             ELSE IF d.ok THEN Text(d.value)
                             ELSE user.email)

\* a view was returned for a record whose email ciphertext no key of the
\* process decrypts: the view carries the stored string
C14_Witness ==
    /\ response.kind = "view"
    /\ RotatedEmail(users[response.userId])
    /\ response.view.email = users[response.userId].email

\* C15: decryptMessage(encryptMessage(s)) is s for every non-empty text s
\* under every process key, and encryptMessageWithIV returns the same string
\* when called twice with the same text and IV.
C15_RoundTrip ==
    response.kind = "cipher" =>
        /\ response.decrypted = Returned(response.text)
        /\ response.first = response.second

\* the credential the client holds was issued less than 24 hours ago, under
\* the encryption key and signing secret the process has now
Fresh(held) ==
    /\ clock - held.issuedAt < 24
    /\ held.key = ENCRYPTION_KEY
    /\ held.secret = JWT_SECRET_FINAL

\* C16: verifyToken on the credential generateToken(userId, email) issued
\* returns the payload with that userId and email while fewer than 24 hours
\* have passed since it was issued, and the one value null in every other
\* case: expired, not a credential at all, signed with another secret, or
\* encrypted under another key.
C16_CredentialLifetime ==
    response.kind = "verify" =>
        IF cookie # NoCookie /\ response.token = cookie.token /\ Fresh(cookie)
        THEN /\ response.payload # NullPayload
             /\ response.payload.userId = cookie.userId
             /\ response.payload.email = AsUnit(cookie.email)
        ELSE response.payload = NullPayload

\* the credential was verified in its last valid hour, and again once expired
C16_WitnessValid ==
    /\ response.kind = "verify"
    /\ cookie # NoCookie
    /\ response.token = cookie.token
    /\ clock - cookie.issuedAt = 23
    /\ response.payload # NullPayload

\* C17: on an id the collection does not hold, get returns null, update and
\* delete fail with the not-found error, and none of the three changes the
\* collection.
C17_MissingId ==
    [][\A e \in Entities : \A id \in RepositoryIds(e) :
        id \notin DOMAIN Collection(e) =>
            /\ GetCall(e, id) => response'.result = Null
            /\ UpdateCall(e, id, RepositoryUpdates(e)) =>
                    response'.result = Thrown(NotFoundMessage(e))
            /\ DeleteCall(e, id) => response'.result = Thrown(NotFoundMessage(e))
            /\ (GetCall(e, id) \/ UpdateCall(e, id, RepositoryUpdates(e)) \/ DeleteCall(e, id))
                    => UNCHANGED <<cards, sets, users>>]_vars

\* max(0, k) for the integer k with k <= num/den < k + 1
ClampedFloor(value) ==
    LET k == CHOOSE i \in (0 - MaxNum - 1)..MaxNum :
                i * value.den <= value.num /\ value.num < (i + 1) * value.den
    IN  IF k < 0 THEN 0 ELSE k

\* C18: setCurrentMana(cardId, v) on a card of the catalog stores and returns
\* max(0, floor(v)): 0 for a negative v, v rounded down for a fractional v.
C18_SetCurrentManaClamps ==
    (response.kind = "setCurrentMana" /\ response.cardId \in DOMAIN cards) =>
        /\ response.ret = ClampedFloor(response.value)
        /\ manaState[response.cardId].currentMana = ClampedFloor(response.value)
        /\ response.value.num < 0 => response.ret = 0

\* setCurrentMana was called with 3.9 and stored 3
C18_Witness ==
    /\ response.kind = "setCurrentMana"
    /\ response.value = Number(39, 10)
    /\ response.ret = 3
    /\ manaState[response.cardId].currentMana = 3

\* the requests that wrote a password on the strength of this token
Changers(token) == {r \in RequestIds : <<"changed", token, r>> \in resetLog}

\* a /reset-password request with this token has been answered with success
Succeeded(token) ==
    \E r \in DOMAIN requests : requests[r].token = token /\ requests[r].status = 200

\* C19: a reset token is one-time use: a /reset-password request that comes
\* in after a request with the same token succeeded is rejected, and at most
\* one request per token ever writes the password, however the requests
\* interleave.
C19_TokenOneTimeUse ==
    [][/\ \A r \in RequestIds, t \in ResetTokens, p \in NewPasswords :
            (Succeeded(t) /\ ResetFind(r, t, p, TRUE)) => requests'[r].status = 400
       /\ \A t \in ResetTokens : Cardinality(Changers(t)') <= 1]_vars

BothDone(r1, r2, kind) ==
    /\ r1 \in DOMAIN requests /\ r2 \in DOMAIN requests
    /\ r1 # r2
    /\ requests[r1].kind = kind /\ requests[r2].kind = kind
    /\ requests[r1].pc = "done" /\ requests[r2].pc = "done"

\* C21: the read-modify-write sequences on the counters are unsynchronized:
\* when two reload redemptions of one user both fetched the count n >= 2 and
\* both succeeded, the stored count is n - 1, and when two depletions of one
\* card both read the value m >= 1 and both completed, the stored value is
\* m - 1: one of the two updates is lost.
C21_LostUpdate ==
    /\ \A r1, r2 \in ReloadRequests :
        (/\ BothDone(r1, r2, "reload")
         /\ requests[r1].status = 200 /\ requests[r2].status = 200
         /\ requests[r1].user.manaReloadTokens = requests[r2].user.manaReloadTokens)
        => users["u1"].manaReloadTokens = requests[r1].user.manaReloadTokens - 1
    /\ \A r1, r2 \in LedgerRequests :
        (/\ BothDone(r1, r2, "deplete")
         /\ requests[r1].cardId = requests[r2].cardId
         /\ requests[r1].cardId \in DOMAIN cards
         /\ SeenMana(requests[r1]) = SeenMana(requests[r2])
         /\ SeenMana(requests[r1]) >= 1)
        => manaState[requests[r1].cardId].currentMana = SeenMana(requests[r1]) - 1

\* both redemptions succeeded and one token of two is left; both depletions
\* of c1 completed and its mana went from 3 to 2
C21_Witness ==
    /\ BothDone("r1", "r2", "reload")
    /\ requests["r1"].status = 200 /\ requests["r2"].status = 200
    /\ requests["r1"].user.manaReloadTokens = 2
    /\ requests["r2"].user.manaReloadTokens = 2
    /\ users["u1"].manaReloadTokens = 1
    /\ BothDone("r3", "r4", "deplete")
    /\ requests["r3"].cardId = "c1" /\ requests["r4"].cardId = "c1"
    /\ today = 0
    /\ SeenMana(requests["r3"]) = 3 /\ SeenMana(requests["r4"]) = 3
    /\ manaState["c1"].currentMana = 2

\* C22: whenever no friend-request handler is in flight, friendship is
\* mutual: a is in b's friendIds exactly when b is in a's.
C22_MutualFriendship ==
    (DOMAIN requests = {}) =>
        \A a, b \in DOMAIN users :
            (a \in users[b].friendIds) <=> (b \in users[a].friendIds)

\* the message list a stored chat was saved with
SavedMessages(userId, cardId) ==
    JsonParse(Plaintext(savedChats[<<userId, cardId>>])).value

\* the mana the ledger holds for a card, its catalog base when it has no
\* record
LedgerMana(cardId) ==
    IF cardId \in DOMAIN manaState THEN manaState[cardId].currentMana
    ELSE OrDefault(cards[cardId].mana, 5)

\* C23: a save over a chat already stored for (user, card) raises devotion by
\* one and lowers mana by one step when the messages added since the stored
\* list contain a detected interaction, and leaves the card's devotion and
\* the ledger as they are when they do not (the same list, or additions
\* without a completed interaction).
C23_SaveIdempotent ==
    [][\A u \in UserIds : \A c \in ChatCards : \A m \in ChatLists :
        (SaveChat(u, c, m) /\ <<u, c>> \in DOMAIN savedChats)
        => LET added == NewMessages(SavedMessages(u, c), m)
           IN  IF Len(added) > 0 /\ hasCompleteSensualInteraction(added)
               THEN /\ cards'[c].devotion = OrDefault(cards[c].devotion, 1) + 1
                    /\ manaState'[c].currentMana = Max(0, LedgerMana(c) - 1)
               ELSE /\ cards' = cards
                    /\ manaState' = manaState
      ]_vars

\* C24: a write of the ledger made for one card leaves the record of every
\* other card as it was: the records of the cards a call is not addressed to
\* are the same before and after each of its writes.
C24_OtherCardsUntouched ==
    [][\A r \in ReloadRequests \cup LedgerRequests :
        (ReloadSet(r) \/ DepleteRecharge(r) \/ DepleteWrite(r))
        => \A b \in DOMAIN manaState :
                b # requests[r].cardId
                => (b \in DOMAIN manaState' /\ manaState'[b] = manaState[b])
      ]_vars

\* C25: a successful login leaves the user with at least as many reload
\* tokens as the user had before it, whatever the count (0..10).
C25_LoginNeverLowersTokens ==
    [][\A u \in UserIds :
        (Login(u, TRUE) /\ u \in DOMAIN users)
        => users'[u].manaReloadTokens >= OrDefault(users[u].manaReloadTokens, 0)
      ]_vars

\* C26: however the logins of one day interleave, the stored count is at
\* most 1 above the count the user began the day with, which is the count in
\* the record a login found before any grant of the day (its lastLoginDate
\* is an earlier day).
C26_OneGrantPerDay ==
    \A r \in DOMAIN requests :
        (/\ requests[r].kind = "login"
         /\ requests[r].status = 0
         /\ requests[r].user.lastLoginDate # today)
        => users[requests[r].userId].manaReloadTokens
                <= OrDefault(requests[r].user.manaReloadTokens, 0) + 1

\* three logins that all began before the first grant have all answered, and
\* the count went from 4 to 5
C26_Witness ==
    /\ \A r \in LoginRequests :
        /\ r \in DOMAIN requests
        /\ requests[r].kind = "login" /\ requests[r].pc = "done"
        /\ requests[r].status = 0
        /\ requests[r].user.manaReloadTokens = 4
        /\ requests[r].currentUser.lastLoginDate # today
    /\ users["u1"].manaReloadTokens = 5
    /\ users["u1"].lastLoginDate = today

\* C27: a successful increase redemption stores a currentMana that is at
\* least the value the ledger held for the card, after recharge-if-needed,
\* when the redemption began.
C27_IncreaseNeverLowers ==
    [][\A u \in UserIds : \A c \in CardIds :
        (IncreaseRoute(u, c) /\ IncreaseStatus(u, c) = 200)
        => manaState'[c].currentMana >= OwnerReading(u, c)
      ]_vars

\* a stored username that is a literal text, or a ciphertext the process
\* decrypts, and the text it reads as
Readable(stored) ==
    \/ stored.kind = "text" /\ stored.chars # <<>>
    \/ stored.kind = "cipher" /\ decryptMessage(stored).ok

UsernameText(stored) ==
    IF stored.kind = "text" THEN stored.chars ELSE decryptMessage(stored).value

\* C28: when the username in the record a login or a token verification
\* fetched reads, the request is answered with success and the username the
\* store then holds reads as the same text, whether the write of the
\* re-encrypted value resolved or rejected.
C28_UsernameSurvives ==
    [][\A r \in LoginRequests : \A iv \in RouteIVs :
        (/\ Respond(r, iv)
         /\ requests[r].status = 0
         /\ Readable(requests[r].user.username))
        => /\ response'.status = 200
           /\ Readable(users'[requests[r].userId].username)
           /\ UsernameText(users'[requests[r].userId].username)
                = UsernameText(requests[r].user.username)
      ]_vars


\* the users some token of the request vouches for
Vouched(req) ==
    {verifyToken(t).userId :
        t \in {t \in {req.authToken, req.xAuthToken} : verifyToken(t) # NullPayload}}

\* C29: requireAuth and requireAdmin admit a request as user u only when it
\* carries a token for which verifyToken returns a payload with userId u; a
\* request without a valid token is answered 401 and never reaches the
\* route handler.
C29_TokenRequired ==
    response.kind \in {"requireAuth", "requireAdmin"}
        => /\ response.outcome.next
                => response.outcome.userId \in Vouched(response.request)
           /\ Vouched(response.request) = {}
                => ~response.outcome.next /\ response.outcome.status = 401


\* C30: no response that carries a user record includes the passwordHash
\* field, whether the record went through decryptUserData or was sent by a
\* purchase route.
C30_NoPasswordHashSent ==
    /\ response.kind = "view" => "passwordHash" \notin DOMAIN response.view
    /\ response.kind \in {"purchaseCard", "purchaseSet"} /\ response.status = 200
            => "passwordHash" \notin DOMAIN response.body

====
